---- MODULE Spec2Model ----
(***************************************************************************)
(* Model of the hybrid retrieval engine of HiGraph-CPG: query routing      *)
(* (api/services/query_router.py), result fusion (api/services/fusion.py), *)
(* rule-based re-ranking (api/services/reranker.py) and the /query and     *)
(* /answer request pipelines (api/routers/query.py, api/routers/answer.py).*)
(*                                                                         *)
(* Python values.  None is the empty tuple and every other value v is the  *)
(* one-element tuple <<v>>, so that "x is None" is x = None for values of  *)
(* every type.  A dict is a function whose DOMAIN is its key set.  A str   *)
(* that the code only compares for equality is a TLA+ string; a str whose  *)
(* characters matter (topics) is a sequence of one-character strings.      *)
(* Floats are exact fixed-point numbers: similarity and final scores in    *)
(* units of 1/ScoreUnit, RRF scores in units of 1/RrfScale.                *)
(***************************************************************************)
EXTENDS Integers, Sequences, FiniteSets, TLC

VARIABLES
    pc,              \* position of the request / call under study
    decision,        \* the RoutingDecision of the request (or NoDecision)
    store_vector,    \* rows the store returns to the semantic query
    store_graph,     \* rows the store returns to the structural query
    vector_results,  \* query.py:168 / answer.py:78
    graph_results,   \* query.py:169 / answer.py:79
    paths_used,      \* query.py:171
    fused_results,   \* query.py:215-226 / answer.py:116-122
    rrf_scores,      \* fusion.py:28, the scores dict of the last fusion
    base_scores,     \* reranker.py:55, base_score of each input record
    reranked_results,\* query.py:230-237
    target_topics,   \* reranker.py:85, argument of the topic boost
    completion,      \* outcome of the completion-service call
    route_result,    \* what QueryRouter.route did: a decision or a raise
    endpoint,        \* "query", "answer", or "direct" for a direct call
    template_used,   \* query.py:170 / answer.py:92
    calls,           \* the calls the request has made, in order
    graph_params,    \* params handed to execute_graph_query / validate_params
    store_status,    \* how the store answers the semantic and structural call
    response,        \* the HTTP response of the request, None until it is sent
    template_schema, \* template.params, the argument of validate_params
    param_errors,    \* the list validate_params returned
    request,         \* the HTTP request the application received
    items,           \* batch_processor.py:46, the list handed to the run
    batch_size,      \* batch_processor.py:34
    failing,         \* the items process_func cannot process
    checkpoint_dir,  \* the checkpoint files: batch_idx -> checkpoint_data
    process_calls,   \* the batches the last run handed to process_func
    returned,        \* what the last run returned
    succeeded        \* history: batches of items processed successfully

vars == <<pc, decision, store_vector, store_graph, vector_results,
          graph_results, paths_used, fused_results, rrf_scores, base_scores,
          reranked_results, target_topics, completion, route_result,
          endpoint, template_used, calls, graph_params, store_status,
          response, template_schema, param_errors, request, items,
          batch_size, failing, checkpoint_dir, process_calls, returned,
          succeeded>>

\* The state of the extraction script, which the API never touches.
script_vars == <<items, batch_size, failing, checkpoint_dir, process_calls,
                 returned, succeeded>>

(***************************************************************************)
(* Bounds of the model.                                                    *)
(***************************************************************************)
MaxVector == 2
MaxGraph == 2
\* Most parameters a template schema declares in a direct call of
\* validate_params.
MaxParams == 2
\* Longest list handed to rerank_results and apply_topic_relevance_boost in
\* a direct call, and the most target topics.
MaxResults == 2
MaxTopics == 1
\* Most items handed to a batch run, and the greatest batch size.
MaxItems == 4
MaxBatchSize == 3

(***************************************************************************)
(* Python values and dicts.                                                *)
(***************************************************************************)
None == <<>>
Some(v) == <<v>>
Val(x) == x[1]

EmptyDict == [k \in {} |-> None]
Get(d, k) == IF k \in DOMAIN d THEN d[k] ELSE None
GetDefault(d, k, default) == IF k \in DOMAIN d THEN d[k] ELSE default
Put(d, k, v) == [x \in (DOMAIN d) \cup {k} |-> IF x = k THEN v ELSE d[x]]
Del(d, k) == [x \in (DOMAIN d) \ {k} |-> d[x]]

SeqMap(Op(_), s) == [i \in 1..Len(s) |-> Op(s[i])]
SeqsUpTo(S, n) == UNION {[1..m -> S] : m \in 0..n}
Max(a, b) == IF a >= b THEN a ELSE b
Min(a, b) == IF a <= b THEN a ELSE b

RECURSIVE GCD(_, _)
GCD(a, b) == IF b = 0 THEN a ELSE GCD(b, a % b)
\* The reduced fraction n/d (d > 0), to compare numbers kept in different units.
Reduced(n, d) ==
    LET g == GCD(IF n < 0 THEN -n ELSE n, d)
    IN IF n = 0 THEN <<0, 1>> ELSE <<n \div g, d \div g>>

\* list.sort(key=..., reverse=True): stable, descending by key.
RECURSIVE InsertDesc(_, _, _, _)
InsertDesc(sorted, x, Key(_), i) ==
    IF i > Len(sorted) \/ Key(sorted[i]) < Key(x)
    THEN SubSeq(sorted, 1, i - 1) \o <<x>> \o SubSeq(sorted, i, Len(sorted))
    ELSE InsertDesc(sorted, x, Key, i + 1)
RECURSIVE SortDescFrom(_, _, _, _)
SortDescFrom(s, Key(_), i, sorted) ==
    IF i > Len(s) THEN sorted
    ELSE SortDescFrom(s, Key, i + 1, InsertDesc(sorted, s[i], Key, 1))
SortDesc(s, Key(_)) == SortDescFrom(s, Key, 1, <<>>)

(***************************************************************************)
(* api/services/fusion.py                                                  *)
(***************************************************************************)
\* Which dict a write lands on.  An input record is named by its place in the
\* arguments (<<list, rank>> for fusion, <<index>> for the re-ranker); <<>>
\* names a dict the function made itself.
\* A variant of dict.copy() that hands back the dict it was given; no code
\* computes it.
DictAlias(place) == place
\* dict.copy(): a new dict holding the same fields.
DictCopy(place) == <<>>

\* k of reciprocal_rank_fusion.
K == 60

\* RRF scores are kept in units of 1/RrfScale, a common multiple of every
\* k + rank that can occur, so that 1.0 / (k + rank) and its sums are exact.
MaxRank == Max(MaxVector, MaxGraph)
RECURSIVE RankProduct(_)
RankProduct(r) == IF r = 0 THEN 1 ELSE (K + r) * RankProduct(r - 1)
RrfScale == RankProduct(MaxRank)

\* A variant that counts ranks from 0; no code computes it.
RrfContributionSkew(rank) == RrfScale \div (K + rank - 1)
\* fusion.py:41  rrf_contribution = 1.0 / (k + rank)
RrfContribution(rank) == RrfScale \div (K + rank)

\* fusion.py:33
SourceName(list_idx) == IF list_idx = 0 THEN "vector" ELSE "graph"

\* fusion.py:53-55, the merge of one item into the stored copy.
MergeFields(stored, item) ==
    [k \in (DOMAIN stored) \cup {x \in DOMAIN item : item[x] # None} |->
        IF k \in DOMAIN item /\ item[k] # None /\ Get(stored, k) = None
        THEN item[k] ELSE stored[k]]

\* The three dicts of fusion.py:28-30; order is the insertion order of items.
EmptyAcc == [order |-> <<>>, scores |-> EmptyDict, items |-> EmptyDict,
             sources |-> EmptyDict]

\* fusion.py:36-55, the loop body for one item of one list.
RrfVisit(acc, list_idx, rank, item) ==
    LET item_id == Get(item, "rec_id")
        seen == item_id \in DOMAIN acc.scores
        scores0 == IF seen THEN acc.scores ELSE Put(acc.scores, item_id, 0)
        items0 == IF seen THEN acc.items ELSE Put(acc.items, item_id, item)
        sources0 == IF seen THEN acc.sources ELSE Put(acc.sources, item_id, {})
    IN IF item_id = None THEN acc
       ELSE [order |-> IF seen THEN acc.order ELSE Append(acc.order, item_id),
             scores |-> Put(scores0, item_id,
                            scores0[item_id] + RrfContribution(rank)),
             sources |-> Put(sources0, item_id,
                             sources0[item_id] \cup {SourceName(list_idx)}),
             items |-> Put(items0, item_id, MergeFields(items0[item_id], item))]

\* fusion.py:35, one ranked list, ranks from 1.
RECURSIVE RrfList(_, _, _, _)
RrfList(acc, list_idx, ranked_list, rank) ==
    IF rank > Len(ranked_list) THEN acc
    ELSE RrfList(RrfVisit(acc, list_idx, rank, ranked_list[rank]),
                 list_idx, ranked_list, rank + 1)

\* fusion.py:32, the lists in order, list_idx from 0.
RECURSIVE RrfLists(_, _, _)
RrfLists(acc, ranked_lists, n) ==
    IF n > Len(ranked_lists) THEN acc
    ELSE RrfLists(RrfList(acc, n - 1, ranked_lists[n], 1), ranked_lists, n + 1)

RrfAccumulate(ranked_lists) == RrfLists(EmptyAcc, ranked_lists, 1)

\* fusion.py:59-70, one result with its score and source label.
RrfResult(acc, item_id) ==
    LET withScore == Put(Put(acc.items[item_id], "_rrf_score",
                             Some(acc.scores[item_id])),
                         "_sources", Some(acc.sources[item_id]))
        label == IF Cardinality(acc.sources[item_id]) > 1 THEN "both"
                 ELSE CHOOSE s \in acc.sources[item_id] : TRUE
    IN Put(withScore, "source", Some(label))

\* fusion.py:76-78
CleanUp(result) == Del(Del(result, "_rrf_score"), "_sources")

RrfKey(result) == Val(result["_rrf_score"])

\* A fusion that builds the result list from the identifiers in the reverse
\* of their encounter order; the order of equal scores is checked against it.
RrfReversedTies(ranked_lists) ==
    IF Len(ranked_lists) = 0 THEN <<>>
    ELSE LET acc == RrfAccumulate(ranked_lists)
             n == Len(acc.order)
             results == [i \in 1..n |-> RrfResult(acc, acc.order[n + 1 - i])]
         IN SeqMap(CleanUp, SortDesc(results, RrfKey))

\* fusion.py:6-80
reciprocal_rank_fusion(ranked_lists) ==
    IF Len(ranked_lists) = 0 THEN <<>>
    ELSE LET acc == RrfAccumulate(ranked_lists)
             results == [i \in 1..Len(acc.order) |-> RrfResult(acc, acc.order[i])]
         IN SeqMap(CleanUp, SortDesc(results, RrfKey))

\* The place of the first record of ranked_lists carrying item_id, the record
\* fusion.py:44-46 copies into items.
FirstPlace(ranked_lists, item_id) ==
    LET places == {pl \in (1..Len(ranked_lists)) \X (1..MaxRank) :
                      /\ pl[2] <= Len(ranked_lists[pl[1]])
                      /\ Get(ranked_lists[pl[1]][pl[2]], "rec_id") = item_id}
    IN CHOOSE pl \in places :
          \A other \in places :
             pl[1] < other[1] \/ (pl[1] = other[1] /\ pl[2] <= other[2])

\* The argument lists as reciprocal_rank_fusion leaves them.  Its writes
\* (fusion.py:53-55, 60-67, 76-78) go to items[item_id] and to result, both
\* made by copy(); an input record changes only if such a copy is the
\* record itself, and then it ends as the result built from it.
FusionInputsAfter(ranked_lists) ==
    LET acc == RrfAccumulate(ranked_lists)
    IN [l \in 1..Len(ranked_lists) |->
          [r \in 1..Len(ranked_lists[l]) |->
              LET item == ranked_lists[l][r]
                  item_id == Get(item, "rec_id")
              IN IF /\ item_id # None
                    /\ FirstPlace(ranked_lists, item_id) = <<l, r>>
                    /\ DictCopy(<<l, r>>) = <<l, r>>
                 THEN CleanUp(RrfResult(acc, item_id))
                 ELSE item]]

\* fusion.py:83-102
NormalizeVectorRow(result) ==
    [rec_id |-> Get(result, "rec_id"),
     rec_text |-> Get(result, "rec_text"),
     strength |-> Get(result, "strength"),
     direction |-> Get(result, "direction"),
     topic |-> Get(result, "topic"),
     similarity_score |-> Get(result, "similarity_score")]
normalize_vector_results(vector_rows) == SeqMap(NormalizeVectorRow, vector_rows)

\* isinstance(x, dict): the rows of the model carry, under "evidence", a dict
\* (the map the evidence templates return) or None.
IsDict(v) == v # None

\* fusion.py:105-132
NormalizeGraphRow(result) ==
    LET item == [rec_id |-> Get(result, "rec_id"),
                 rec_text |-> Get(result, "rec_text"),
                 strength |-> Get(result, "strength"),
                 direction |-> Get(result, "direction"),
                 topic |-> Get(result, "topic")]
    IN IF "evidence" \in DOMAIN result /\ IsDict(result["evidence"])
       THEN Put(Put(item, "evidence_quality",
                    Get(Val(result["evidence"]), "quality_rating")),
                "study_count", Get(Val(result["evidence"]), "num_studies"))
       ELSE IF "quality_rating" \in DOMAIN result
       THEN Put(Put(item, "evidence_quality", Get(result, "quality_rating")),
                "study_count", Get(result, "num_studies"))
       ELSE item
normalize_graph_results(graph_rows) == SeqMap(NormalizeGraphRow, graph_rows)

(***************************************************************************)
(* api/services/reranker.py                                                *)
(***************************************************************************)
\* round(x, 4): scores are kept in units of 1/ScoreUnit.
ScoreUnit == 10000

\* The boost tables, each multiplier as the fraction <<numerator, denominator>>.
One == <<1, 1>>
STRENGTH_BOOST ==
    (Some("Strong") :> <<6, 5>>) @@ (Some("Weak") :> One) @@
    (Some("Neither for nor against") :> <<9, 10>>) @@ (None :> One)
QUALITY_BOOST ==
    (Some("High") :> <<23, 20>>) @@ (Some("Moderate") :> <<21, 20>>) @@
    (Some("Low") :> <<19, 20>>) @@ (Some("Very Low") :> <<17, 20>>) @@
    (None :> One)
DIRECTION_BOOST ==
    (Some("For") :> <<21, 20>>) @@ (Some("Against") :> One) @@
    (Some("Neither") :> <<19, 20>>) @@ (None :> One)

\* bool(x) of an optional number: None and 0 are falsy.
Truthy(x) == x # None /\ Val(x) # 0

\* round(a / b) for b > 0, ties to the even neighbour.
RoundHalfEven(a, b) ==
    LET q == a \div b
        r == a - q * b
    IN IF 2 * r < b THEN q
       ELSE IF 2 * r > b THEN q + 1
       ELSE IF q % 2 = 0 THEN q ELSE q + 1

\* round(min(x, 1.0), 4) in units of 1/ScoreUnit, for x = (n / d) * m with m
\* a fraction; n / d and m are multiplied exactly.
CapRound(n, d, m) ==
    LET g == Reduced(n, d)
        f == Reduced(m[1] * ScoreUnit, g[2] * m[2])
    IN IF g[1] * m[1] >= g[2] * m[2] THEN ScoreUnit
       ELSE RoundHalfEven(g[1] * f[1], f[2])

\* reranker.py:55  the base score as <<numerator, unit>>: the similarity score
\* in 1/ScoreUnit, else the record's "_rrf_score" in 1/RrfScale, else 0.5.
BaseScore(result) ==
    IF Truthy(Get(result, "similarity_score"))
    THEN <<Val(result["similarity_score"]), ScoreUnit>>
    ELSE IF Truthy(Get(result, "_rrf_score"))
    THEN <<Val(result["_rrf_score"]), RrfScale>>
    ELSE <<1, 2>>

\* A lookup that gives a value outside the table the multiplier 0.85; the
\* default multiplier is checked against it.
BoostPenalisingUnknown(table, key) ==
    IF key \in DOMAIN table THEN table[key] ELSE <<17, 20>>

\* dict.get(key, 1.0) on a boost table.
Boost(table, key) == IF key \in DOMAIN table THEN table[key] ELSE One

\* A variant without the strength multiplier; no code computes it.
MultiplierNoStrength(result) ==
    LET q == Boost(QUALITY_BOOST, Get(result, "evidence_quality"))
        d == Boost(DIRECTION_BOOST, Get(result, "direction"))
    IN Reduced(q[1] * d[1], q[2] * d[2])
\* reranker.py:57-70, the product of the three multipliers.
Multiplier(result) ==
    LET s == Boost(STRENGTH_BOOST, Get(result, "strength"))
        q == Boost(QUALITY_BOOST, Get(result, "evidence_quality"))
        d == Boost(DIRECTION_BOOST, Get(result, "direction"))
    IN Reduced(s[1] * q[1] * d[1], s[2] * q[2] * d[2])

\* reranker.py:53-75, one scored copy.
ScoredResult(result) ==
    LET base == BaseScore(result)
    IN Put(result, "score", Some(CapRound(base[1], base[2], Multiplier(result))))

ScoreKey(result) == Val(result["score"])

\* reranker.py:30-80
rerank_results(results) ==
    IF Len(results) = 0 THEN <<>>
    ELSE SortDesc(SeqMap(ScoredResult, results), ScoreKey)

\* The argument list as rerank_results leaves it: the score is written to
\* scored_result (reranker.py:72-74), the sort is of scored_results.
RerankInputAfter(results) ==
    [i \in 1..Len(results) |->
        IF DictCopy(<<i>>) = <<i>> THEN ScoredResult(results[i]) ELSE results[i]]

\* str.lower() on the characters of the model.
LowerChar(c) == IF c = "A" THEN "a" ELSE IF c = "B" THEN "b" ELSE c
Lower(s) == SeqMap(LowerChar, s)

\* Python's "a in b" for two strs.
IsSubstr(a, b) ==
    \E i \in 0..(Len(b) - Len(a)) : SubSeq(b, i + 1, i + Len(a)) = a

\* (result.get(key) or "").lower()
LowerField(result, key) ==
    IF Get(result, key) = None THEN <<>> ELSE Lower(Val(result[key]))

\* reranker.py:111-114
TopicMatch(result, target_topics_lower) ==
    LET topic == LowerField(result, "topic")
        subtopic == LowerField(result, "subtopic")
    IN \E i \in 1..Len(target_topics_lower) :
          LET t == target_topics_lower[i]
          IN \/ IsSubstr(t, topic) \/ IsSubstr(t, subtopic)
             \/ IsSubstr(topic, t) \/ IsSubstr(subtopic, t)

\* boost_factor of apply_topic_relevance_boost, as a fraction.
BoostFactor == <<11, 10>>

\* result_copy.get("score", 0.5) in units of 1/ScoreUnit.
CurrentScore(result) ==
    IF "score" \in DOMAIN result THEN Val(result["score"]) ELSE ScoreUnit \div 2

\* reranker.py:105-120, one copy, boosted when its topic matches.
BoostedResult(result, target_topics_lower) ==
    IF TopicMatch(result, target_topics_lower)
    THEN Put(result, "score",
             Some(CapRound(CurrentScore(result), ScoreUnit, BoostFactor)))
    ELSE result

\* x.get("score", 0), the sort key of reranker.py:123.
BoostKey(result) == IF "score" \in DOMAIN result THEN Val(result["score"]) ELSE 0

\* reranker.py:83-125
apply_topic_relevance_boost(results, topics) ==
    IF Len(results) = 0 \/ Len(topics) = 0 THEN results
    ELSE LET lowered == SeqMap(Lower, topics)
             boosted == [i \in 1..Len(results) |->
                            BoostedResult(results[i], lowered)]
         IN SortDesc(boosted, BoostKey)

\* The argument list as apply_topic_relevance_boost leaves it: the score is
\* written to result_copy (reranker.py:106, 117-118), the sort is of boosted.
BoostInputAfter(results, topics) ==
    IF Len(results) = 0 \/ Len(topics) = 0 THEN results
    ELSE [i \in 1..Len(results) |->
            IF DictCopy(<<i>>) = <<i>>
            THEN BoostedResult(results[i], SeqMap(Lower, topics))
            ELSE results[i]]

(***************************************************************************)
(* api/models/query.py and api/services/query_router.py                    *)
(*                                                                         *)
(* A computation that may raise yields Raise(exception class) or           *)
(* Return(value).  A JSON value is None (null), JStr, JNum (the fraction   *)
(* n/d), JList or JObj (a dict of JSON values).                            *)
(***************************************************************************)
Raise(e) == [ok |-> FALSE, exc |-> e]
Return(v) == [ok |-> TRUE, val |-> v]

JStr(s) == [t |-> "str", s |-> s]
JNum(n, d) == [t |-> "num", n |-> n, d |-> d]
JList(l) == [t |-> "list", l |-> l]
JObj(o) == [t |-> "obj", o |-> o]

\* query.py (models):9-22
QueryTypes == {"VECTOR", "GRAPH", "HYBRID"}
Intents == {"treatment_recommendation", "evidence_lookup", "drug_info",
            "safety_check", "general_question"}

\* models/query.py:47-54, ExtractedEntities() with its default factories.
EntityKeys == {"conditions", "medications", "patient_characteristics",
               "rec_ids", "topics"}
EmptyEntities == [k \in EntityKeys |-> <<>>]

\* query_router.py:146-153, the decision substituted when routing fails.
FallbackDecision(exc) ==
    [query_type |-> "VECTOR", intent |-> "general_question",
     confidence |-> <<1, 2>>, entities |-> EmptyEntities,
     template_hint |-> None,
     reasoning |-> <<"Routing failed", exc, "defaulting to vector search">>]

\* The exception classes and their bases; query_router.py:144 catches
\* httpx.HTTPError, json.JSONDecodeError and KeyError.
Bases(e) ==
    CASE e = "ConnectError" -> {"ConnectError", "HTTPError", "Exception"}
      [] e = "HTTPStatusError" -> {"HTTPStatusError", "HTTPError", "Exception"}
      [] e = "JSONDecodeError" -> {"JSONDecodeError", "ValueError", "Exception"}
      [] e = "ValidationError" -> {"ValidationError", "ValueError", "Exception"}
      [] e = "KeyError" -> {"KeyError", "LookupError", "Exception"}
      [] e = "IndexError" -> {"IndexError", "LookupError", "Exception"}
      [] OTHER -> {e, "Exception"}
RouteCatchesNoJson == {"HTTPError", "KeyError"}
RouteCatches == {"HTTPError", "JSONDecodeError", "KeyError"}
Caught(e, classes) == Bases(e) \cap classes # {}

\* A line of the completion text: an opening or closing fence, a line of a
\* serialized JSON value (part i of its JsonParts lines; tail is "fence" when
\* a closing fence follows on the same line, else ""), or prose.
Fence(lang) == [kind |-> "fence", lang |-> lang]
JsonLine(doc, part, tail) == [kind |-> "json", doc |-> doc, part |-> part,
                              tail |-> tail]
Prose == [kind |-> "prose"]
\* line.startswith(three backticks)
StartsWithFence(line) == line.kind = "fence"

\* The lines of json.dumps(doc, indent=...): the opening line, a body line
\* and the closing line.
JsonParts == {1, 2, 3}
JsonLines(doc) == [i \in 1..Cardinality(JsonParts) |-> JsonLine(doc, i, "")]

\* json.loads: the text parses iff it is exactly the lines of one value.
json_loads(lines) ==
    IF Len(lines) = Cardinality(JsonParts) /\ lines[1].kind = "json"
       /\ lines = JsonLines(lines[1].doc)
    THEN Return(lines[1].doc)
    ELSE Raise("JSONDecodeError")

NotFence(line) == ~StartsWithFence(line)

\* query_router.py:158-170
\* (content.strip() changes nothing: the texts of the model have no leading
\* or trailing whitespace.)
_parse_response(content) ==
    IF Len(content) > 0 /\ StartsWithFence(content[1])
    THEN json_loads(SelectSeq(SubSeq(content, 2, Len(content) - 1), NotFence))
    ELSE json_loads(content)

\* float(x) of query_router.py:195, x a JSON value or the default 0.8.
ToFloat(x) ==
    IF x = None THEN Raise("TypeError")
    ELSE IF Val(x).t = "num" THEN Return(<<Val(x).n, Val(x).d>>)
    ELSE IF Val(x).t = "str" THEN Raise("ValueError")
    ELSE Raise("TypeError")

\* pydantic validation of list[str] (models/query.py:50-54): a list of strs.
IsStrList(x) ==
    x # None /\ Val(x).t = "list"
    /\ \A i \in 1..Len(Val(x).l) : Val(x).l[i].t = "str"
StrList(x) == [i \in 1..Len(Val(x).l) |-> Val(x).l[i].s]

\* query_router.py:183-190: entities_data.get(k, []) for the five lists, then
\* ExtractedEntities(...).
BuildEntities(entities_data) ==
    IF entities_data = None \/ Val(entities_data).t # "obj"
    THEN Raise("AttributeError")
    ELSE LET o == Val(entities_data).o
             given(k) == GetDefault(o, k, Some(JList(<<>>)))
         IN IF \A k \in EntityKeys : IsStrList(given(k))
            THEN Return([k \in EntityKeys |-> StrList(given(k))])
            ELSE Raise("ValidationError")

\* query_router.py:172-199; data is the JSON value json.loads returned.
_build_decision(data) ==
    IF data.t # "obj" THEN Raise("AttributeError")
    ELSE
    LET o == data.o
        qt == GetDefault(o, "query_type", Some(JStr("VECTOR")))
        intent_str == GetDefault(o, "intent", Some(JStr("general_question")))
        intent == IF intent_str # None /\ Val(intent_str).t = "str"
                     /\ Val(intent_str).s \in Intents
                  THEN Val(intent_str).s ELSE "general_question"
        entities == BuildEntities(GetDefault(o, "entities",
                                             Some(JObj(EmptyDict))))
        confidence == ToFloat(GetDefault(o, "confidence", Some(JNum(4, 5))))
        hint == Get(o, "template_hint")
        reasoning == GetDefault(o, "reasoning",
                                Some(JStr("No reasoning provided")))
    IN IF ~(qt # None /\ Val(qt).t = "str" /\ Val(qt).s \in QueryTypes)
       THEN Raise("ValueError")
       ELSE IF ~entities.ok THEN entities
       ELSE IF ~confidence.ok THEN confidence
       ELSE IF \/ confidence.val[1] < 0
               \/ confidence.val[1] > confidence.val[2]
               \/ (hint # None /\ Val(hint).t # "str")
               \/ reasoning = None \/ Val(reasoning).t # "str"
       THEN Raise("ValidationError")
       ELSE Return([query_type |-> Val(qt).s, intent |-> intent,
                    confidence |-> confidence.val, entities |-> entities.val,
                    template_hint |-> IF hint = None THEN None
                                      ELSE Some(Val(hint).s),
                    reasoning |-> Val(reasoning).s])

\* query_router.py:126-138: the call, raise_for_status(), response.json() and
\* result["content"][0]["text"], for an outcome c of the completion service.
CompletionText(c) ==
    IF c.kind = "network_error" THEN Raise("ConnectError")
    ELSE IF c.kind = "http_status" THEN Raise("HTTPStatusError")
    ELSE IF c.kind = "body_not_json" THEN Raise("JSONDecodeError")
    ELSE IF "content" \notin DOMAIN c.body THEN Raise("KeyError")
    ELSE IF Len(c.body["content"]) = 0 THEN Raise("IndexError")
    ELSE IF "text" \notin DOMAIN c.body["content"][1] THEN Raise("KeyError")
    ELSE Return(c.body["content"][1]["text"])

\* query_router.py:125-142, the body of the try block.
RouteTry(c) ==
    LET content == CompletionText(c)
        decision_data == _parse_response(content.val)
    IN IF ~content.ok THEN content
       ELSE IF ~decision_data.ok THEN decision_data
       ELSE _build_decision(decision_data.val)

\* query_router.py:111-156 (the routing time is left out).
RouteWith(c, classes) ==
    LET attempt == RouteTry(c)
    IN IF ~attempt.ok /\ Caught(attempt.exc, classes)
       THEN Return(FallbackDecision(attempt.exc))
       ELSE attempt
\* A variant whose except clause leaves out json.JSONDecodeError; no code
\* computes it.
RouteNoJsonCatch(c) == RouteWith(c, RouteCatchesNoJson)
route(c) == RouteWith(c, RouteCatches)

\* routers/query.py:151-165 and routers/answer.py:62-75: the caller's own
\* fallback when route raises.
CallerDecision(r) ==
    IF r.ok THEN r.val
    ELSE [query_type |-> "VECTOR", intent |-> "general_question",
          confidence |-> <<1, 2>>, entities |-> EmptyEntities,
          template_hint |-> None, reasoning |-> <<"Routing failed", r.exc>>]

(***************************************************************************)
(* api/services/graph_templates.py, the registry, and the template         *)
(* resolvers of the two endpoints.                                         *)
(***************************************************************************)
\* graph_templates.py:30-405, the keys of TEMPLATES.
TEMPLATES ==
    {"recommendation_only", "recommendation_with_evidence",
     "evidence_chain_full", "studies_for_recommendation",
     "recommendations_by_topic", "recommendations_by_care_phase",
     "recommendations_by_condition", "recommendations_by_intervention",
     "disease_progression", "care_phases_overview", "conditions_overview",
     "interventions_overview", "interventions_for_recommendation",
     "conditions_for_recommendation"}

\* bool(x) of an optional str and of a list.
TruthyStr(x) == x # None /\ Val(x) # ""
NonEmpty(l) == Len(l) > 0

\* routers/query.py:33-58
_select_graph_template(d) ==
    IF TruthyStr(d.template_hint) /\ Val(d.template_hint) \in TEMPLATES
    THEN d.template_hint
    ELSE IF NonEmpty(d.entities.rec_ids)
    THEN Some("recommendation_with_evidence")
    ELSE IF NonEmpty(d.entities.topics) THEN Some("recommendations_by_topic")
    ELSE IF d.intent = "evidence_lookup" THEN Some("evidence_chain_full")
    ELSE IF NonEmpty(d.entities.conditions)
    THEN Some("recommendations_by_topic")
    ELSE None

\* routers/answer.py:189-213
_select_template(d) ==
    IF TruthyStr(d.template_hint) THEN d.template_hint
    ELSE IF NonEmpty(d.entities.conditions)
    THEN Some("recommendations_by_condition")
    ELSE IF NonEmpty(d.entities.medications)
    THEN Some("recommendations_by_intervention")
    ELSE IF NonEmpty(d.entities.topics) THEN Some("recommendations_by_topic")
    ELSE IF NonEmpty(d.entities.rec_ids)
    THEN Some("recommendation_with_evidence")
    ELSE IF d.query_type = "GRAPH" THEN Some("conditions_overview")
    ELSE None

\* query.py:186-192 / answer.py:91-95: the template whose query is executed,
\* None when the structural path does not run.
SelectedTemplate(ep, d) ==
    IF d.query_type \in {"GRAPH", "HYBRID"}
    THEN IF ep = "query" THEN _select_graph_template(d) ELSE _select_template(d)
    ELSE None
\* if template_used: template = get_template(template_used); if template:
RunsGraph(ep, d) ==
    TruthyStr(SelectedTemplate(ep, d)) /\ Val(SelectedTemplate(ep, d)) \in TEMPLATES
\* query.py:174; answer.py:83 always runs the semantic query.
RunsVector(ep, d) == ep = "answer" \/ d.query_type \in {"VECTOR", "HYBRID"}

(***************************************************************************)
(* Template parameters: the schemas of api/services/graph_templates.py,    *)
(* validate_params, and the parameter builders of the two endpoints.       *)
(*                                                                         *)
(* A parameter value is None or <<x>> with x a tagged Python value         *)
(* PyVal(t, v): t is "str" for a str taken whole, "chars" for a str whose  *)
(* characters are modelled (a topic), "int", "bool", "float" or "list" (v  *)
(* is then a sequence of tagged values).                                   *)
(***************************************************************************)
PyVal(t, v) == [t |-> t, v |-> v]
PyStr(s) == PyVal("str", s)
PyList(l) == PyVal("list", l)
\* isinstance(x, str)
IsStr(x) == x.t \in {"str", "chars"}

\* graph_templates.py:12-17, a TemplateParam.
TemplateParam(name, type, required) ==
    [name |-> name, type |-> type, required |-> required]

\* graph_templates.py:30-405, template.params of each registry template.
TemplateParams(template_name) ==
    CASE template_name \in {"recommendation_only", "recommendation_with_evidence",
                            "evidence_chain_full"} ->
            <<TemplateParam("rec_ids", "string_list", TRUE)>>
      [] template_name \in {"studies_for_recommendation",
                            "interventions_for_recommendation",
                            "conditions_for_recommendation"} ->
            <<TemplateParam("rec_id", "string", TRUE)>>
      [] template_name = "recommendations_by_topic" ->
            <<TemplateParam("topic", "string", TRUE)>>
      [] template_name = "recommendations_by_care_phase" ->
            <<TemplateParam("phase_name", "string", TRUE)>>
      [] template_name \in {"recommendations_by_condition",
                            "disease_progression"} ->
            <<TemplateParam("condition_name", "string", TRUE)>>
      [] template_name = "recommendations_by_intervention" ->
            <<TemplateParam("intervention_name", "string", TRUE)>>
      [] OTHER -> <<>>

\* len(value.strip()) == 0 for a str: the blank strings taken whole are ""
\* and " ".
IsBlank(x) ==
    IF x.t = "chars" THEN \A i \in 1..Len(x.v) : x.v[i] = " "
    ELSE x.v \in {"", " "}

\* A validation that accepts blank strings; the properties of
\* validate_params are checked against it.
ParamErrorsNoBlank(param_schema, params) ==
    LET param_name == param_schema.name
        param_value == Get(params, param_name)
        v == Val(param_value)
    IN IF param_schema.required /\ param_value = None
       THEN << <<"Missing required parameter", param_name>> >>
       ELSE IF param_value = None THEN <<>>
       ELSE IF param_schema.type = "string"
       THEN IF ~IsStr(v) THEN << <<"must be a string", param_name>> >>
            ELSE <<>>
       ELSE IF param_schema.type = "string_list"
       THEN IF v.t # "list" THEN << <<"must be a list", param_name>> >>
            ELSE IF Len(v.v) = 0 THEN << <<"cannot be empty", param_name>> >>
            ELSE IF ~(\A i \in 1..Len(v.v) : IsStr(v.v[i]))
            THEN << <<"must be a list of strings", param_name>> >>
            ELSE <<>>
       ELSE IF param_schema.type = "int"
       THEN IF v.t \notin {"int", "bool"}
            THEN << <<"must be an integer", param_name>> >>
            ELSE <<>>
       ELSE <<>>

\* graph_templates.py:434-463, the messages for one declared parameter.
ParamErrors(param_schema, params) ==
    LET param_name == param_schema.name
        param_value == Get(params, param_name)
        v == Val(param_value)
    IN IF param_schema.required /\ param_value = None
       THEN << <<"Missing required parameter", param_name>> >>
       ELSE IF param_value = None THEN <<>>
       ELSE IF param_schema.type = "string"
       THEN IF ~IsStr(v) THEN << <<"must be a string", param_name>> >>
            ELSE IF IsBlank(v) THEN << <<"cannot be empty", param_name>> >>
            ELSE <<>>
       ELSE IF param_schema.type = "string_list"
       THEN IF v.t # "list" THEN << <<"must be a list", param_name>> >>
            ELSE IF Len(v.v) = 0 THEN << <<"cannot be empty", param_name>> >>
            ELSE IF ~(\A i \in 1..Len(v.v) : IsStr(v.v[i]))
            THEN << <<"must be a list of strings", param_name>> >>
            ELSE <<>>
       ELSE IF param_schema.type = "int"
       THEN \* isinstance(param_value, int): a bool is an int.
            IF v.t \notin {"int", "bool"}
            THEN << <<"must be an integer", param_name>> >>
            ELSE <<>>
       ELSE <<>>

\* graph_templates.py:426-465; schema is template.params.
RECURSIVE validate_params(_, _)
validate_params(schema, params) ==
    IF Len(schema) = 0 THEN <<>>
    ELSE ParamErrors(Head(schema), params) \o validate_params(Tail(schema), params)

\* A list[str] of a decision as a parameter value.
PyStrList(l) == PyList([i \in 1..Len(l) |-> PyStr(l[i])])

\* routers/query.py:90-103, condition_topic_map in its order.
ConditionTopicMap ==
    << <<"kidney", "Pharmacotherapy">>, <<"ckd", "Pharmacotherapy">>,
       <<"renal", "Pharmacotherapy">>, <<"heart", "Pharmacotherapy">>,
       <<"cardiovascular", "Pharmacotherapy">>, <<"ascvd", "Pharmacotherapy">>,
       <<"blood sugar", "Glycemic Control">>, <<"glucose", "Glycemic Control">>,
       <<"hba1c", "Glycemic Control">>, <<"a1c", "Glycemic Control">>,
       <<"prediabetes", "Prediabetes">>, <<"prevention", "Prediabetes">> >>
\* keyword in condition.lower(), for the conditions of the model.
KeywordIn(keyword, condition) ==
    \/ condition = "CKD" /\ keyword = "ckd"
    \/ condition = "heart failure" /\ keyword = "heart"
    \/ condition = "prediabetes" /\ keyword = "prediabetes"
\* routers/query.py:104-113
ConditionTopic(conditions) ==
    LET hits == {<<c, k>> \in (1..Len(conditions)) \X (1..Len(ConditionTopicMap)) :
                    KeywordIn(ConditionTopicMap[k][1], conditions[c])}
        first == CHOOSE h \in hits :
                    \A g \in hits : h[1] < g[1] \/ (h[1] = g[1] /\ h[2] <= g[2])
    IN IF hits = {} THEN "Pharmacotherapy"
       ELSE ConditionTopicMap[first[2]][2]

\* routers/query.py:61-117
_build_graph_params(d, template_name) ==
    LET entities == d.entities
        rec_ids_or_default ==
            IF NonEmpty(entities.rec_ids) THEN PyStrList(entities.rec_ids)
            ELSE PyList(<<PyStr("REC_001")>>)
    IN IF template_name \notin TEMPLATES THEN EmptyDict
       ELSE IF template_name \in {"recommendation_only",
                                  "recommendation_with_evidence",
                                  "evidence_chain_full"}
       THEN [rec_ids |-> Some(rec_ids_or_default)]
       ELSE IF template_name = "studies_for_recommendation"
       THEN [rec_id |-> Some(PyStr(IF NonEmpty(entities.rec_ids)
                                   THEN entities.rec_ids[1] ELSE "REC_001"))]
       ELSE IF template_name = "recommendations_by_topic"
       THEN IF NonEmpty(entities.topics)
            THEN [topic |-> Some(PyVal("chars", entities.topics[1]))]
            ELSE IF NonEmpty(entities.conditions)
            THEN [topic |-> Some(PyStr(ConditionTopic(entities.conditions)))]
            ELSE [topic |-> Some(PyStr("Pharmacotherapy"))]
       ELSE EmptyDict

\* routers/answer.py:216-262
_build_params(d, template_name) ==
    LET entities == d.entities
    IN IF template_name = "recommendations_by_condition"
       THEN [condition_name |->
                Some(PyStr(IF NonEmpty(entities.conditions)
                           THEN entities.conditions[1]
                           ELSE "Diabetic Kidney Disease"))]
       ELSE IF template_name = "recommendations_by_intervention"
       THEN [intervention_name |->
                Some(PyStr(IF NonEmpty(entities.medications)
                           THEN entities.medications[1]
                           ELSE "SGLT2 Inhibitors"))]
       ELSE IF template_name = "recommendations_by_care_phase"
       THEN \* answer.py:232-238: no topic of the model holds a care-phase
            \* keyword, so the default is taken.
            [phase_name |-> Some(PyStr("Treatment"))]
       ELSE IF template_name \in {"conditions_overview", "interventions_overview",
                                  "care_phases_overview"}
       THEN EmptyDict
       ELSE IF template_name = "recommendations_by_topic"
       THEN IF NonEmpty(entities.topics)
            THEN [topic |-> Some(PyVal("chars", entities.topics[1]))]
            ELSE [topic |-> Some(PyStr("Pharmacotherapy"))]
       ELSE IF template_name \in {"recommendation_only",
                                  "recommendation_with_evidence",
                                  "evidence_chain_full"}
       THEN IF NonEmpty(entities.rec_ids)
            THEN [rec_ids |-> Some(PyStrList(entities.rec_ids))]
            ELSE [rec_ids |-> Some(PyList(<<PyStr("REC_001")>>))]
       ELSE IF template_name = "studies_for_recommendation"
       THEN [rec_id |-> Some(PyStr(IF NonEmpty(entities.rec_ids)
                                   THEN entities.rec_ids[1] ELSE "REC_001"))]
       ELSE EmptyDict

\* The parameters the endpoint builds for the resolved template.
BuiltParams(ep, d, template_name) ==
    IF ep = "query" THEN _build_graph_params(d, template_name)
    ELSE _build_params(d, template_name)

(***************************************************************************)
(* The store: the Recommendation nodes of the model and the rows the two   *)
(* queries of api/services/neo4j_service.py return for them.               *)
(***************************************************************************)
RecIds == {"R1", "R2", "R3"}
NodeStrength == [R1 |-> Some("Strong"), R2 |-> Some("Weak"), R3 |-> None]
NodeDirection == [R1 |-> Some("For"), R2 |-> Some("Against"), R3 |-> None]
NodeTopic == [R1 |-> Some(<<"A", "b">>), R2 |-> Some(<<"B">>), R3 |-> None]
NodeSubtopic == [R1 |-> Some(<<"b">>), R2 |-> None, R3 |-> None]
\* The similarity the index reports for the question, in 1/ScoreUnit.
NodeSimilarity == [R1 |-> 9000, R2 |-> 7000, R3 |-> 0]

RecFields(id) ==
    [rec_id |-> Some(id), rec_text |-> Some(<<"text of", id>>),
     strength |-> NodeStrength[id], direction |-> NodeDirection[id],
     topic |-> NodeTopic[id]]

\* neo4j_service.py:17-24, a row of the vector query.
VectorRow(id) == Put(RecFields(id), "similarity_score", Some(NodeSimilarity[id]))

\* neo4j_service.py:144-151: each node once, ORDER BY score DESC.
StoreVectorLists ==
    {l \in SeqsUpTo(RecIds, MaxVector) :
        \A i, j \in 1..Len(l) :
            i < j => NodeSimilarity[l[i]] > NodeSimilarity[l[j]]}
VectorRows(l) == [i \in 1..Len(l) |-> VectorRow(l[i])]

\* Rows of the templates, by the shape of their RETURN clause.
\* recommendation_only, recommendations_by_topic (graph_templates.py:46-52).
PlainRow(id) == Put(RecFields(id), "subtopic", NodeSubtopic[id])
\* recommendation_with_evidence (graph_templates.py:72-80): one row for each
\* EvidenceBody the recommendation is BASED_ON.
EvidenceRow(id, quality, n) ==
    Put(Put(RecFields(id), "quality_rating", quality), "num_studies", n)
\* evidence_chain_full (graph_templates.py:112-125): evidence is a map.
ChainRow(id, quality, n) ==
    Put(RecFields(id), "evidence",
        Some([quality_rating |-> quality, num_studies |-> n]))
\* recommendations_by_condition (graph_templates.py:235-242): one row for
\* each matching Condition the recommendation is related to.
ConditionRow(id, condition) ==
    Put(RecFields(id), "condition_name", Some(condition))
\* conditions_overview (graph_templates.py:330-335): no recommendation fields.
OverviewRow(condition) ==
    [condition_id |-> Some(condition), name |-> Some(condition)]

RowsOfTemplate(name) ==
    CASE name \in {"recommendation_only", "recommendations_by_topic"} ->
            {PlainRow(id) : id \in RecIds}
      [] name = "recommendation_with_evidence" ->
            {EvidenceRow("R1", Some("High"), Some(3)),
             EvidenceRow("R1", Some("Low"), Some(1)),
             EvidenceRow("R3", None, None)}
      [] name = "evidence_chain_full" ->
            {ChainRow("R1", Some("Moderate"), Some(2)),
             ChainRow("R2", Some("Very Low"), None)}
      [] name = "recommendations_by_condition" ->
            {ConditionRow("R1", "CKD"), ConditionRow("R1", "DKD"),
             ConditionRow("R2", "CKD")}
      [] OTHER -> {OverviewRow("CKD"), OverviewRow("CVD")}

\* What the store returns to the structural query of a request: rows of the
\* template, each at most once.
StoreGraphLists(ep, d) ==
    IF RunsGraph(ep, d)
    THEN {l \in SeqsUpTo(RowsOfTemplate(Val(SelectedTemplate(ep, d))), MaxGraph) :
             \A i, j \in 1..Len(l) : i < j => l[i] # l[j]}
    ELSE {<<>>}

\* The routing decisions of the requests of the model.
Entities(conditions, rec_ids, topics) ==
    [conditions |-> conditions, medications |-> <<>>,
     patient_characteristics |-> <<>>, rec_ids |-> rec_ids, topics |-> topics]
Decision(qt, intent, entities, hint) ==
    [query_type |-> qt, intent |-> intent, confidence |-> <<4, 5>>,
     entities |-> entities, template_hint |-> hint, reasoning |-> "r"]
PipelineDecisions ==
    {Decision("VECTOR", "general_question", EmptyEntities, None),
     Decision("VECTOR", "drug_info", Entities(<<>>, <<>>, << <<"a">> >>), None),
     Decision("GRAPH", "general_question", EmptyEntities, None),
     Decision("GRAPH", "drug_info", Entities(<<>>, <<>>, << <<"B">> >>), None),
     Decision("GRAPH", "evidence_lookup", Entities(<<>>, <<"R1">>, <<>>), None),
     Decision("HYBRID", "treatment_recommendation",
              Entities(<<"CKD", "heart failure">>, <<>>, <<>>), None),
     Decision("HYBRID", "evidence_lookup", EmptyEntities, None),
     Decision("HYBRID", "treatment_recommendation",
              Entities(<<>>, <<"R1">>, << <<"c">> >>), None),
     Decision("HYBRID", "general_question", EmptyEntities,
              Some("conditions_overview")),
     Decision("HYBRID", "general_question", EmptyEntities,
              Some("not_a_template"))}

NoDecision == [query_type |-> "none"]
NoCompletion == [kind |-> "none"]
NoResult == [ok |-> FALSE, exc |-> "not called"]

\* How the store answers a call: with rows ("ok"), not at all because it is
\* unreachable (the driver raises ServiceUnavailable), or with another error.
StoreAnswers == {"ok", "unreachable", "error"}
StoreUp == [vector |-> "ok", graph |-> "ok"]

\* No HTTP request is being dispatched and no extraction run has been made.
NoRequest == request = None
NoScript ==
    /\ items = <<>>
    /\ batch_size = 1
    /\ failing = {}
    /\ checkpoint_dir = EmptyDict
    /\ process_calls = <<>>
    /\ returned = None
    /\ succeeded = {}

(***************************************************************************)
(* The request pipelines: routers/query.py unified_query and               *)
(* routers/answer.py generate_answer, from the routing decision on.        *)
(***************************************************************************)
\* An entry of calls: the function called and the step of the handler that
\* called it.
Call(fn, step) == [fn |-> fn, step |-> step]

\* The answers of the store to the calls the request makes; a call that is
\* not made has no answer to vary.
StoreStatuses(ep, d) ==
    {st \in [vector : StoreAnswers, graph : StoreAnswers] :
        /\ RunsVector(ep, d) \/ st.vector = "ok"
        /\ RunsGraph(ep, d) \/ st.graph = "ok"}

InitQuery ==
    /\ pc = "routed"
    /\ endpoint \in {"query", "answer"}
    /\ decision \in PipelineDecisions
    /\ store_vector \in (IF RunsVector(endpoint, decision)
                          THEN {VectorRows(l) : l \in StoreVectorLists}
                          ELSE {<<>>})
    /\ store_graph \in StoreGraphLists(endpoint, decision)
    /\ store_status \in StoreStatuses(endpoint, decision)
    /\ vector_results = <<>>
    /\ graph_results = <<>>
    /\ paths_used = <<>>
    /\ template_used = None
    /\ fused_results = <<>>
    /\ rrf_scores = None
    /\ base_scores = <<>>
    /\ reranked_results = <<>>
    /\ target_topics = <<>>
    /\ completion = NoCompletion
    /\ route_result = NoResult
    /\ calls = <<Call("route", "routing")>>
    /\ graph_params = None
    /\ response = None
    /\ template_schema = <<>>
    /\ param_errors = <<>>
    /\ NoRequest /\ NoScript

\* query.py:201-210 / answer.py:103-112: the response to a failed retrieval
\* call; the driver raises ServiceUnavailable when the store is unreachable.
RetrievalError(answer) ==
    [status |-> IF answer = "unreachable" THEN 503 ELSE 502]

\* query.py:167-210 and answer.py:77-112, the try block of the retrieval
\* calls with its two handlers.  The semantic call comes first; a call that
\* raises ends the request.
Retrieve(ep) ==
    LET runs_vector == RunsVector(ep, decision)
        vector_ok == ~runs_vector \/ store_status.vector = "ok"
        selects == vector_ok /\ decision.query_type \in {"GRAPH", "HYBRID"}
        runs_graph == vector_ok /\ RunsGraph(ep, decision)
        graph_ok == ~runs_graph \/ store_status.graph = "ok"
        params == BuiltParams(ep, decision, Val(SelectedTemplate(ep, decision)))
    IN /\ calls' = calls
                    \o (IF runs_vector
                        THEN <<Call("vector_search_with_embedding", "retrieval")>>
                        ELSE <<>>)
                    \o (IF runs_graph
                        THEN <<Call("get_template", "retrieval"),
                               Call("execute_graph_query", "retrieval")>>
                        ELSE IF selects /\ TruthyStr(SelectedTemplate(ep, decision))
                        THEN <<Call("get_template", "retrieval")>>
                        ELSE <<>>)
       /\ vector_results' = IF runs_vector /\ vector_ok
                              THEN normalize_vector_results(store_vector)
                              ELSE <<>>
       /\ template_used' = IF selects THEN SelectedTemplate(ep, decision)
                             ELSE None
       /\ graph_params' = IF runs_graph THEN Some(params) ELSE None
       /\ graph_results' = IF runs_graph /\ graph_ok
                             THEN normalize_graph_results(store_graph)
                             ELSE <<>>
       /\ paths_used' = IF ep = "query"
                          THEN (IF runs_vector /\ vector_ok
                                THEN <<"vector">> ELSE <<>>)
                               \o (IF runs_graph /\ graph_ok
                                   THEN <<"graph">> ELSE <<>>)
                          ELSE paths_used
       /\ response' = IF ~vector_ok THEN Some(RetrievalError(store_status.vector))
                        ELSE IF ~graph_ok
                        THEN Some(RetrievalError(store_status.graph))
                        ELSE None
       /\ pc' = IF vector_ok /\ graph_ok THEN "retrieved" ELSE "done"

\* query.py:167-210
QueryRetrieve ==
    /\ pc = "routed" /\ endpoint = "query"
    /\ Retrieve("query")
    /\ UNCHANGED <<request, script_vars>>
    /\ UNCHANGED <<decision, store_vector, store_graph, fused_results,
                   rrf_scores, base_scores, reranked_results, target_topics,
                   completion, route_result, endpoint, store_status,
                   template_schema, param_errors>>

\* answer.py:77-112
AnswerRetrieve ==
    /\ pc = "routed" /\ endpoint = "answer"
    /\ Retrieve("answer")
    /\ UNCHANGED <<request, script_vars>>
    /\ UNCHANGED <<decision, store_vector, store_graph, fused_results,
                   rrf_scores, base_scores, reranked_results, target_topics,
                   completion, route_result, endpoint, store_status,
                   template_schema, param_errors>>

\* A tagging that names the other path; the source tag of a single list is
\* checked against it.
TaggedOtherPath(results, tag) ==
    [i \in 1..Len(results) |->
        Put(results[i], "source",
            Some(IF tag = "vector" THEN "graph" ELSE "vector"))]

\* query.py:219-220 and 223-224: r["source"] = tag for every record.
Tagged(results, tag) ==
    [i \in 1..Len(results) |-> Put(results[i], "source", Some(tag))]

\* query.py:212-226.  The single-list branches tag the records of the list
\* itself, which fused_results aliases.
QueryFuse ==
    /\ pc = "retrieved" /\ endpoint = "query"
    /\ IF decision.query_type = "HYBRID" /\ NonEmpty(vector_results)
          /\ NonEmpty(graph_results)
       THEN /\ fused_results' =
                   reciprocal_rank_fusion(<<vector_results, graph_results>>)
            /\ rrf_scores' =
                   Some(RrfAccumulate(<<vector_results, graph_results>>).scores)
            /\ calls' = Append(calls, Call("reciprocal_rank_fusion", "fusion"))
            /\ UNCHANGED <<vector_results, graph_results>>
       ELSE IF NonEmpty(vector_results)
       THEN /\ fused_results' = Tagged(vector_results, "vector")
            /\ vector_results' = Tagged(vector_results, "vector")
            /\ UNCHANGED <<graph_results, rrf_scores, calls>>
       ELSE IF NonEmpty(graph_results)
       THEN /\ fused_results' = Tagged(graph_results, "graph")
            /\ graph_results' = Tagged(graph_results, "graph")
            /\ UNCHANGED <<vector_results, rrf_scores, calls>>
       ELSE /\ fused_results' = <<>>
            /\ UNCHANGED <<vector_results, graph_results, rrf_scores, calls>>
    /\ pc' = "fused"
    /\ UNCHANGED <<request, script_vars>>
    /\ UNCHANGED <<decision, store_vector, store_graph, paths_used,
                   base_scores, reranked_results, target_topics, completion,
                   route_result, endpoint, template_used, graph_params,
                   store_status, response, template_schema, param_errors>>

\* answer.py:114-122
AnswerFuse ==
    /\ pc = "retrieved" /\ endpoint = "answer"
    /\ IF NonEmpty(vector_results) /\ NonEmpty(graph_results)
       THEN /\ fused_results' =
                   reciprocal_rank_fusion(<<vector_results, graph_results>>)
            /\ rrf_scores' =
                   Some(RrfAccumulate(<<vector_results, graph_results>>).scores)
            /\ calls' = Append(calls, Call("reciprocal_rank_fusion", "fusion"))
       ELSE /\ fused_results' = IF NonEmpty(vector_results) THEN vector_results
                                ELSE graph_results
            /\ UNCHANGED <<rrf_scores, calls>>
    /\ pc' = "fused"
    /\ UNCHANGED <<request, script_vars>>
    /\ UNCHANGED <<decision, store_vector, store_graph, vector_results,
                   graph_results, paths_used, base_scores, reranked_results,
                   target_topics, completion, route_result, endpoint,
                   template_used, graph_params, store_status, response,
                   template_schema, param_errors>>

\* A handler that re-ranks the retrieved records without waiting for the
\* fusion step; the order of the steps is checked against it.
RerankBeforeFusion ==
    /\ pc = "retrieved"
    /\ \A i \in 1..Len(calls) : calls[i].step # "rerank"
    /\ reranked_results' = rerank_results(vector_results \o graph_results)
    /\ base_scores' = SeqMap(BaseScore, vector_results \o graph_results)
    /\ calls' = Append(calls, Call("rerank_results", "rerank"))
    /\ UNCHANGED <<request, script_vars>>
    /\ UNCHANGED <<pc, decision, store_vector, store_graph, vector_results,
                   graph_results, paths_used, fused_results, rrf_scores,
                   target_topics, completion, route_result, endpoint,
                   template_used, graph_params, store_status, response,
                   template_schema, param_errors>>

\* query.py:228-230 / answer.py:124, and a direct call of rerank_results on
\* fused_results.  base_scores records base_score of reranker.py:55 for each
\* input record.  answer.py:124 calls the function only for a non-empty list.
Rerank ==
    /\ pc = "fused"
    /\ reranked_results' = rerank_results(fused_results)
    /\ base_scores' = SeqMap(BaseScore, fused_results)
    /\ calls' = IF endpoint = "answer" /\ ~NonEmpty(fused_results) THEN calls
                ELSE Append(calls, Call("rerank_results", "rerank"))
    /\ fused_results' = RerankInputAfter(fused_results)
    /\ pc' = "reranked"
    /\ UNCHANGED <<request, script_vars>>
    /\ UNCHANGED <<decision, store_vector, store_graph, vector_results,
                   graph_results, paths_used, rrf_scores,
                   target_topics, completion, route_result, endpoint,
                   template_used, graph_params, store_status, response,
                   template_schema, param_errors>>

\* query.py:232-237
QueryTopicBoost ==
    /\ pc = "reranked" /\ endpoint = "query"
    /\ NonEmpty(decision.entities.topics)
    /\ target_topics' = decision.entities.topics
    /\ reranked_results' =
           apply_topic_relevance_boost(reranked_results, decision.entities.topics)
    /\ pc' = "boosted"
    /\ UNCHANGED <<request, script_vars>>
    /\ UNCHANGED <<decision, store_vector, store_graph, vector_results,
                   graph_results, paths_used, fused_results, rrf_scores,
                   base_scores, completion, route_result, endpoint,
                   template_used, calls, graph_params, store_status, response,
                   template_schema, param_errors>>

\* reranked_results[: request.top_k] for the default top_k of the request
\* models (models/query.py:39-44, models/answer.py:44-49).
TopResults(ep, results) ==
    SubSeq(results, 1, Min(Len(results), IF ep = "query" THEN 10 ELSE 5))

\* len(x) if x else None
LenOrNone(x) == IF NonEmpty(x) THEN Some(Len(x)) ELSE None

\* query.py:263-280, the reasoning block (the timing apart).
QueryReasoningBlock ==
    [routing |-> decision,
     paths_used |-> paths_used,
     template_used |-> template_used,
     vector_candidates |-> LenOrNone(vector_results),
     graph_candidates |-> LenOrNone(graph_results),
     fusion_method |-> IF decision.query_type = "HYBRID" THEN Some("RRF")
                       ELSE None,
     rerank_applied |-> TRUE]

\* query.py:248-260 with models/query.py:93-104: rec_id and rec_text are
\* required str fields, and item.get(key, "") is None for a key that holds
\* None, so QueryResult raises a ValidationError for such a record.
QueryResultValid(item) ==
    Get(item, "rec_id") # None /\ Get(item, "rec_text") # None

\* query.py:239-282: the response, or the 500 of an exception no handler
\* catches.
QueryRespond ==
    /\ endpoint = "query"
    /\ \/ pc = "boosted"
       \/ pc = "reranked" /\ ~NonEmpty(decision.entities.topics)
    /\ LET top == TopResults("query", reranked_results)
       IN response' =
            IF \A i \in 1..Len(top) : QueryResultValid(top[i])
            THEN Some([status |-> 200, results |-> top,
                       reasoning |-> QueryReasoningBlock])
            ELSE Some([status |-> 500])
    /\ pc' = "done"
    /\ UNCHANGED <<request, script_vars>>
    /\ UNCHANGED <<decision, store_vector, store_graph, vector_results,
                   graph_results, paths_used, fused_results, rrf_scores,
                   base_scores, reranked_results, target_topics, completion,
                   route_result, endpoint, template_used, calls, graph_params,
                   store_status, template_schema, param_errors>>

\* answer.py:265-300 called at answer.py:155-158: the identifiers of the
\* first three records that have one.
StudyRecIds(top_results) ==
    LET first3 == SubSeq(top_results, 1, Min(Len(top_results), 3))
    IN SelectSeq([i \in 1..Len(first3) |-> Get(first3[i], "rec_id")],
                 LAMBDA x : TruthyStr(x))

\* answer.py:126-186: the answer is generated, the studies are looked up when
\* the request asks for them, and the response is sent.  generate
\* (answer_generator.py:98-168) calls the completion service only for a
\* non-empty list and catches httpx.HTTPError only; any other exception of
\* the call reaches no handler.  The study lookup swallows every exception
\* of its store call.
AnswerRespond ==
    /\ endpoint = "answer" /\ pc = "reranked"
    /\ \E include_studies \in BOOLEAN, generated \in {"answer", "raised"} :
        LET top_results == TopResults("answer", reranked_results)
            rec_ids == StudyRecIds(top_results)
            raised == generated = "raised" /\ NonEmpty(top_results)
            looks_up == ~raised /\ include_studies /\ NonEmpty(top_results)
                        /\ NonEmpty(rec_ids)
        IN /\ calls' = calls
                        \o <<Call("generate", "generation")>>
                        \o (IF looks_up
                            THEN <<Call("get_template", "studies"),
                                   Call("execute_graph_query", "studies")>>
                            ELSE <<>>)
           /\ graph_params' =
                 IF looks_up
                 THEN Some([rec_ids |-> Some(PyList(
                          [i \in 1..Len(rec_ids) |-> PyStr(Val(rec_ids[i]))]))])
                 ELSE graph_params
           /\ response' =
                 IF raised THEN Some([status |-> 500])
                 ELSE Some([status |-> 200,
                            reasoning |->
                               [query_routing |-> decision.query_type,
                                results_retrieved |-> Len(reranked_results),
                                results_used |-> Len(top_results)]])
    /\ pc' = "done"
    /\ UNCHANGED <<request, script_vars>>
    /\ UNCHANGED <<decision, store_vector, store_graph, vector_results,
                   graph_results, paths_used, fused_results, rrf_scores,
                   base_scores, reranked_results, target_topics, completion,
                   route_result, endpoint, template_used, store_status,
                   template_schema, param_errors>>

NextQuery ==
    \/ QueryRetrieve \/ AnswerRetrieve \/ QueryFuse \/ AnswerFuse
    \/ Rerank \/ QueryTopicBoost \/ QueryRespond \/ AnswerRespond

SpecQuery == InitQuery /\ [][NextQuery]_vars

(***************************************************************************)
(* Direct calls of the pure functions, on arguments a caller may pass.     *)
(* The argument lists are vector_results and graph_results (fusion) and    *)
(* fused_results (re-ranking, topic boost); the result is in fused_results *)
(* (fusion) and reranked_results.                                          *)
(***************************************************************************)
Idle ==
    /\ endpoint = "direct"
    /\ decision = NoDecision
    /\ store_vector = <<>>
    /\ store_graph = <<>>
    /\ paths_used = <<>>
    /\ template_used = None
    /\ completion = NoCompletion
    /\ route_result = NoResult
    /\ calls = <<>>
    /\ graph_params = None
    /\ store_status = StoreUp
    /\ response = None
    /\ template_schema = <<>>
    /\ param_errors = <<>>

\* Records for the first and the second list of a direct fusion call.
FusionIds == {None, Some("R1"), Some("R2"), Some("R3")}
FusionVectorItems ==
    {[rec_id |-> id, rec_text |-> Some("text"), strength |-> s,
      direction |-> None, topic |-> None, similarity_score |-> Some(8000)] :
        id \in FusionIds, s \in {None, Some("Strong")}}
FusionGraphItems ==
    {[rec_id |-> id, rec_text |-> Some("text"), strength |-> None,
      direction |-> Some("For"), topic |-> None] : id \in FusionIds}
    \cup
    {[rec_id |-> id, rec_text |-> Some("text"), strength |-> Some("Weak"),
      direction |-> Some("For"), topic |-> None, evidence_quality |-> q,
      study_count |-> Some(3)] : id \in FusionIds, q \in {Some("High")}}

InitFusion ==
    /\ Idle /\ NoRequest /\ NoScript
    /\ pc = "retrieved"
    /\ vector_results \in SeqsUpTo(FusionVectorItems, MaxVector)
    /\ graph_results \in SeqsUpTo(FusionGraphItems, MaxGraph)
    /\ fused_results = <<>>
    /\ rrf_scores = None
    /\ base_scores = <<>>
    /\ reranked_results = <<>>
    /\ target_topics = <<>>

\* reciprocal_rank_fusion([vector_results, graph_results])
CallFusion ==
    /\ pc = "retrieved" /\ endpoint = "direct"
    /\ fused_results' = reciprocal_rank_fusion(<<vector_results, graph_results>>)
    /\ rrf_scores' = Some(RrfAccumulate(<<vector_results, graph_results>>).scores)
    /\ vector_results' = FusionInputsAfter(<<vector_results, graph_results>>)[1]
    /\ graph_results' = FusionInputsAfter(<<vector_results, graph_results>>)[2]
    /\ pc' = "fused"
    /\ UNCHANGED <<request, script_vars>>
    /\ UNCHANGED <<decision, store_vector, store_graph,
                   paths_used, base_scores, reranked_results,
                   target_topics, completion, route_result, endpoint,
                   template_used, calls, graph_params, store_status, response,
                   template_schema, param_errors>>

SpecFusion == InitFusion /\ [][CallFusion]_vars

\* Arguments of a direct rerank_results call: the records of one list share
\* evidence quality and direction and differ in base score and strength.
Strengths == {None, Some("Strong"), Some("Weak"),
              Some("Neither for nor against")}
Qualities == {None, Some("High"), Some("Moderate"), Some("Low"),
              Some("Very Low"), Some("Excellent")}
Directions == {None, Some("For"), Some("Against"), Some("Neither"),
               Some("Conditional")}
\* <<similarity_score, _rrf_score>>; an absent key is None here.
BaseVariants ==
    {<<None, None>>, <<None, Some(RrfContribution(1))>>, <<Some(0), None>>,
     <<Some(1), None>>, <<Some(9000), None>>, <<Some(15000), None>>,
     <<Some(0 - 5000), None>>}
RerankItem(b, s, q, d) ==
    LET item == [rec_id |-> Some("R1"), strength |-> s, direction |-> d,
                 evidence_quality |-> q, similarity_score |-> b[1]]
    IN IF b[2] = None THEN item ELSE Put(item, "_rrf_score", b[2])
RerankItems(q, d) ==
    {RerankItem(b, s, q, d) : b \in BaseVariants, s \in Strengths}

InitRerank ==
    /\ Idle /\ NoRequest /\ NoScript
    /\ pc = "fused"
    /\ vector_results = <<>>
    /\ graph_results = <<>>
    /\ \E q \in Qualities, d \in Directions :
          fused_results \in SeqsUpTo(RerankItems(q, d), MaxResults)
    /\ rrf_scores = None
    /\ base_scores = <<>>
    /\ reranked_results = <<>>
    /\ target_topics = <<>>

SpecRerank == InitRerank /\ [][Rerank]_vars

\* Arguments of a direct apply_topic_relevance_boost call.
TopicStrings == {<<"a">>, <<"A", "B">>, <<"c">>}
BoostItems ==
    {[rec_id |-> Some("R1"), topic |-> t, score |-> Some(sc)] :
        t \in {None, Some(<<>>), Some(<<"B">>), Some(<<"c", "c">>)},
        sc \in {5000, 9500}}
    \cup
    {[rec_id |-> Some("R1"), topic |-> t, subtopic |-> st] :
        t \in {None, Some(<<"b", "a">>)},
        st \in {None, Some(<<"C">>), Some(<<"b">>)}}
    \cup
    {[rec_id |-> Some("R1"), topic |-> Some(<<"b">>), subtopic |-> st,
      score |-> Some(9500)] : st \in {Some(<<>>), Some(<<"b">>)}}

InitBoost ==
    /\ Idle /\ NoRequest /\ NoScript
    /\ pc = "reranked"
    /\ vector_results = <<>>
    /\ graph_results = <<>>
    /\ fused_results \in SeqsUpTo(BoostItems, MaxResults)
    /\ target_topics \in SeqsUpTo(TopicStrings, MaxTopics)
    /\ rrf_scores = None
    /\ base_scores = <<>>
    /\ reranked_results = <<>>

\* apply_topic_relevance_boost(fused_results, target_topics)
CallBoost ==
    /\ pc = "reranked" /\ endpoint = "direct"
    /\ reranked_results' = apply_topic_relevance_boost(fused_results, target_topics)
    /\ fused_results' = BoostInputAfter(fused_results, target_topics)
    /\ pc' = "boosted"
    /\ UNCHANGED <<request, script_vars>>
    /\ UNCHANGED <<decision, store_vector, store_graph, vector_results,
                   graph_results, paths_used, rrf_scores,
                   base_scores, target_topics, completion, route_result,
                   endpoint, template_used, calls, graph_params, store_status,
                   response, template_schema, param_errors>>

SpecBoost == InitBoost /\ [][CallBoost]_vars

\* Direct calls of the three functions, alone or one after the other on the
\* caller's lists.
InitDirect == InitFusion \/ InitRerank \/ InitBoost
NextDirect == CallFusion \/ Rerank \/ CallBoost
SpecDirect == InitDirect /\ [][NextDirect]_vars

(***************************************************************************)
(* The routing step: QueryRouter.route on an outcome of the completion     *)
(* service, then the caller's own try/except (query.py:151-165).           *)
(***************************************************************************)
\* A field of the JSON object: <<>> when the key is absent, <<v>> when it is
\* present with value v (None for null).
MkObj(opts) == [k \in {x \in DOMAIN opts : opts[x] # <<>>} |-> opts[k][1]]
Present(v) == <<Some(v)>>
Null == <<None>>
Absent == <<>>

QueryTypeOpts ==
    {Absent, Null, Present(JStr("VECTOR")), Present(JStr("GRAPH")),
     Present(JStr("HYBRID")), Present(JStr("KEYWORD"))}
IntentOpts ==
    {Absent, Null, Present(JStr("evidence_lookup")), Present(JStr("diagnosis"))}
ConfidenceOpts ==
    {Absent, Null, Present(JNum(19, 20)), Present(JNum(3, 2)),
     Present(JNum(0 - 1, 10)), Present(JStr("high"))}
EntitiesOpts ==
    {Absent, Null, Present(JObj(EmptyDict)),
     Present(JObj([conditions |-> Some(JList(<<JStr("CKD")>>)),
                   topics |-> Some(JList(<<JStr(<<"a">>)>>))])),
     Present(JObj([conditions |-> None])),
     Present(JObj([rec_ids |-> Some(JList(<<JNum(1, 1)>>))]))}
HintOpts == {Absent, Null, Present(JStr("recommendations_by_topic"))}
ReasoningOpts == {Absent, Null, Present(JStr("because"))}

\* JSON values that are not objects.
NonObjectDocs == {JList(<<>>), JStr("VECTOR")}

\* The texts of the completion: a JSON value bare, in a fenced block with or
\* without a language tag, with the closing fence directly after the value,
\* or after a line of prose; and texts that hold no JSON value.
Wrappings == {"bare", "fenced json", "fenced", "fence on last line", "prose"}
Wrap(w, doc) ==
    CASE w = "bare" -> JsonLines(doc)
      [] w = "fenced json" -> <<Fence("json")>> \o JsonLines(doc) \o <<Fence("")>>
      [] w = "fenced" -> <<Fence("")>> \o JsonLines(doc) \o <<Fence("")>>
      [] w = "fence on last line" ->
            <<Fence("json"), JsonLine(doc, 1, ""), JsonLine(doc, 2, ""),
              JsonLine(doc, 3, "fence")>>
      [] w = "prose" -> <<Prose>> \o JsonLines(doc)
NonJsonTexts == {<<>>, <<Prose>>, <<Fence("")>>, <<Fence(""), Prose, Fence("")>>}

TextCompletion(t) == [kind |-> "ok", body |-> [content |-> <<[text |-> t]>>]]
FailedCompletions ==
    {[kind |-> "network_error"], [kind |-> "http_status"],
     [kind |-> "body_not_json"],
     [kind |-> "ok", body |-> [type |-> "error"]],
     [kind |-> "ok", body |-> [content |-> <<>>]],
     [kind |-> "ok", body |-> [content |-> <<[type |-> "tool_use"]>>]]}

\* The outcomes of the completion-service call.
IsCompletion(c) ==
    \/ c \in FailedCompletions
    \/ \E t \in NonJsonTexts : c = TextCompletion(t)
    \/ \E doc \in NonObjectDocs, w \in Wrappings : c = TextCompletion(Wrap(w, doc))
    \/ \E a \in QueryTypeOpts, b \in IntentOpts, c1 \in ConfidenceOpts,
          e \in EntitiesOpts, h \in HintOpts, r \in ReasoningOpts,
          w \in Wrappings :
          c = TextCompletion(Wrap(w, JObj(MkObj(
                  [query_type |-> a, intent |-> b, confidence |-> c1,
                   entities |-> e, template_hint |-> h, reasoning |-> r]))))

InitRouter ==
    /\ pc = "start"
    /\ IsCompletion(completion)
    /\ route_result = NoResult
    /\ decision = NoDecision
    /\ endpoint = "query"
    /\ store_vector = <<>>
    /\ store_graph = <<>>
    /\ vector_results = <<>>
    /\ graph_results = <<>>
    /\ paths_used = <<>>
    /\ template_used = None
    /\ fused_results = <<>>
    /\ rrf_scores = None
    /\ base_scores = <<>>
    /\ reranked_results = <<>>
    /\ target_topics = <<>>
    /\ calls = <<>>
    /\ graph_params = None
    /\ store_status = StoreUp
    /\ response = None
    /\ template_schema = <<>>
    /\ param_errors = <<>>
    /\ NoRequest /\ NoScript

\* query_router.py:111-156
RouteCall ==
    /\ pc = "start"
    /\ route_result' = route(completion)
    /\ calls' = Append(calls, Call("route", "routing"))
    /\ pc' = "route_returned"
    /\ UNCHANGED <<request, script_vars>>
    /\ UNCHANGED <<decision, store_vector, store_graph, vector_results,
                   graph_results, paths_used, fused_results, rrf_scores,
                   base_scores, reranked_results, target_topics, completion,
                   endpoint, template_used, graph_params, store_status,
                   response, template_schema, param_errors>>

\* query.py:151-165 / answer.py:62-75
CallerRouted ==
    /\ pc = "route_returned"
    /\ decision' = CallerDecision(route_result)
    /\ pc' = "routed"
    /\ UNCHANGED <<request, script_vars>>
    /\ UNCHANGED <<store_vector, store_graph, vector_results, graph_results,
                   paths_used, fused_results, rrf_scores, base_scores,
                   reranked_results, target_topics, completion, route_result,
                   endpoint, template_used, calls, graph_params, store_status,
                   response, template_schema, param_errors>>

NextRouter == RouteCall \/ CallerRouted

SpecRouter == InitRouter /\ [][NextRouter]_vars

(***************************************************************************)
(* Template selection and parameter building called directly on a decision *)
(* of the structural path: routers/query.py:188-192 and                    *)
(* routers/answer.py:92-96.                                                *)
(***************************************************************************)
\* The template hints of the model: none, the empty string, every registry
\* name and a name outside the registry.
TemplateHints ==
    {None, Some(""), Some("not_a_template")} \cup {Some(t) : t \in TEMPLATES}

\* Decisions with which the handlers reach template selection (query.py:186,
\* answer.py:91): strategy GRAPH or HYBRID.
ParamDecisions ==
    {Decision(qt, intent,
              [EmptyEntities EXCEPT !.conditions = c, !.medications = m,
                                    !.rec_ids = r, !.topics = t],
              hint) :
        qt \in {"GRAPH", "HYBRID"},
        intent \in {"evidence_lookup", "general_question"},
        c \in {<<>>, <<"CKD", "heart failure">>},
        m \in {<<>>, <<"metformin">>},
        r \in {<<>>, <<"R1">>},
        t \in {<<>>, << <<"a">> >>},
        hint \in TemplateHints}

InitParams ==
    /\ pc = "routed"
    /\ endpoint \in {"query", "answer"}
    /\ decision \in ParamDecisions
    /\ store_vector = <<>>
    /\ store_graph = <<>>
    /\ vector_results = <<>>
    /\ graph_results = <<>>
    /\ paths_used = <<>>
    /\ template_used = None
    /\ fused_results = <<>>
    /\ rrf_scores = None
    /\ base_scores = <<>>
    /\ reranked_results = <<>>
    /\ target_topics = <<>>
    /\ completion = NoCompletion
    /\ route_result = NoResult
    /\ calls = <<>>
    /\ graph_params = None
    /\ store_status = StoreUp
    /\ response = None
    /\ template_schema = <<>>
    /\ param_errors = <<>>
    /\ NoRequest /\ NoScript

\* query.py:188 / answer.py:92
CallSelectTemplate ==
    /\ pc = "routed"
    /\ template_used' = SelectedTemplate(endpoint, decision)
    /\ pc' = "selected"
    /\ UNCHANGED <<request, script_vars>>
    /\ UNCHANGED <<decision, store_vector, store_graph, vector_results,
                   graph_results, paths_used, fused_results, rrf_scores,
                   base_scores, reranked_results, target_topics, completion,
                   route_result, endpoint, calls, graph_params, store_status,
                   response, template_schema, param_errors>>

\* query.py:189-192 / answer.py:93-96: the template is looked up and, when
\* the registry has it, the parameters are built for it.
CallBuildParams ==
    /\ pc = "selected"
    /\ TruthyStr(template_used) /\ Val(template_used) \in TEMPLATES
    /\ template_schema' = TemplateParams(Val(template_used))
    /\ graph_params' = Some(BuiltParams(endpoint, decision, Val(template_used)))
    /\ pc' = "built"
    /\ UNCHANGED <<request, script_vars>>
    /\ UNCHANGED <<decision, store_vector, store_graph, vector_results,
                   graph_results, paths_used, fused_results, rrf_scores,
                   base_scores, reranked_results, target_topics, completion,
                   route_result, endpoint, template_used, calls, store_status,
                   response, param_errors>>

NextParams == CallSelectTemplate \/ CallBuildParams

SpecParams == InitParams /\ [][NextParams]_vars

(***************************************************************************)
(* A whole request to /query or /answer: the routing step followed by the  *)
(* pipeline (query.py:151-282, answer.py:62-186).                          *)
(***************************************************************************)
\* The outcomes of the completion-service call of the requests of the
\* model: a failed call, or a JSON object naming a strategy.
IsRequestCompletion(c) ==
    \/ c = [kind |-> "network_error"]
    \/ \E a \in {"VECTOR", "GRAPH", "HYBRID"},
          e \in {Present(JObj(EmptyDict)),
                 Present(JObj([conditions |-> Some(JList(<<JStr("CKD")>>)),
                               topics |-> Some(JList(<<JStr(<<"a">>)>>))])),
                 Present(JObj([rec_ids |-> Some(JList(<<JStr("R1")>>))]))},
          h \in {Absent, Present(JStr("conditions_overview"))} :
          c = TextCompletion(Wrap("bare", JObj(MkObj(
                  [query_type |-> Present(JStr(a)), intent |-> Absent,
                   confidence |-> Absent, entities |-> e,
                   template_hint |-> h, reasoning |-> Absent]))))

\* The store holds what it will answer to the calls the decision leads to.
InitRequest ==
    /\ pc = "start"
    /\ endpoint \in {"query", "answer"}
    /\ IsRequestCompletion(completion)
    /\ LET d == CallerDecision(route(completion))
       IN /\ store_vector \in (IF RunsVector(endpoint, d)
                                THEN {VectorRows(l) : l \in StoreVectorLists}
                                ELSE {<<>>})
          /\ store_graph \in StoreGraphLists(endpoint, d)
          /\ store_status \in StoreStatuses(endpoint, d)
    /\ route_result = NoResult
    /\ decision = NoDecision
    /\ vector_results = <<>>
    /\ graph_results = <<>>
    /\ paths_used = <<>>
    /\ template_used = None
    /\ fused_results = <<>>
    /\ rrf_scores = None
    /\ base_scores = <<>>
    /\ reranked_results = <<>>
    /\ target_topics = <<>>
    /\ calls = <<>>
    /\ graph_params = None
    /\ response = None
    /\ template_schema = <<>>
    /\ param_errors = <<>>
    /\ NoRequest /\ NoScript

NextRequest == RouteCall \/ CallerRouted \/ NextQuery

SpecRequest == InitRequest /\ [][NextRequest]_vars

(***************************************************************************)
(* POST /search/graph: routers/search.py graph_search, the whole handler.  *)
(* template_used holds request.template and graph_params request.params.   *)
(***************************************************************************)
\* The parameter maps of the requests of the model, as a list: their values
\* are of different Python types.
SearchParams ==
    <<EmptyDict,
     [rec_ids |-> Some(PyList(<<PyStr("R1")>>))],
     [rec_ids |-> Some(PyList(<<>>))],
     [rec_ids |-> Some(PyList(<<PyStr("R1"), PyVal("int", 2)>>))],
     [rec_ids |-> Some(PyStr("R1"))],
     [rec_ids |-> None],
     [rec_id |-> Some(PyStr("R1"))],
     [rec_id |-> Some(PyStr(" "))],
     [topic |-> Some(PyVal("chars", <<"a">>))],
     [topic |-> Some(PyVal("int", 2))],
     [condition_name |-> Some(PyStr("CKD"))],
     [phase_name |-> Some(PyStr("Treatment")), unused |-> Some(PyStr("x"))],
     [intervention_name |-> Some(PyStr(""))]>>

InitSearch ==
    /\ pc = "request"
    /\ endpoint = "search_graph"
    /\ template_used \in {Some(t) : t \in TEMPLATES \cup {"not_a_template"}}
    /\ \E i \in 1..Len(SearchParams) : graph_params = Some(SearchParams[i])
    /\ store_status \in {[StoreUp EXCEPT !.graph = a] : a \in StoreAnswers}
    /\ store_graph \in (IF Val(template_used) \in TEMPLATES
                         THEN SeqsUpTo(RowsOfTemplate(Val(template_used)), 1)
                         ELSE {<<>>})
    /\ decision = NoDecision
    /\ store_vector = <<>>
    /\ vector_results = <<>>
    /\ graph_results = <<>>
    /\ paths_used = <<>>
    /\ fused_results = <<>>
    /\ rrf_scores = None
    /\ base_scores = <<>>
    /\ reranked_results = <<>>
    /\ target_topics = <<>>
    /\ completion = NoCompletion
    /\ route_result = NoResult
    /\ calls = <<>>
    /\ response = None
    /\ template_schema = <<>>
    /\ param_errors = <<>>
    /\ NoRequest /\ NoScript

\* search.py:199-260
GraphSearch ==
    /\ pc = "request" /\ endpoint = "search_graph"
    /\ LET name == Val(template_used)
           found == name \in TEMPLATES
           errors == validate_params(TemplateParams(name), Val(graph_params))
           executes == found /\ errors = <<>>
       IN /\ calls' = calls \o <<Call("get_template", "search")>>
                       \o (IF found THEN <<Call("validate_params", "search")>>
                           ELSE <<>>)
                       \o (IF executes
                           THEN <<Call("execute_graph_query", "search")>>
                           ELSE <<>>)
          /\ template_schema' = IF found THEN TemplateParams(name) ELSE <<>>
          /\ param_errors' = IF found THEN errors ELSE <<>>
          /\ graph_results' = IF executes /\ store_status.graph = "ok"
                                THEN store_graph ELSE <<>>
          /\ response' =
               IF ~found THEN Some([status |-> 400, detail |-> name])
               ELSE IF errors # <<>>
               THEN Some([status |-> 422, detail |-> errors])
               ELSE IF store_status.graph # "ok"
               THEN Some(RetrievalError(store_status.graph))
               ELSE Some([status |-> 200, results |-> store_graph,
                          reasoning |-> [template_used |-> name,
                                         results_count |-> Len(store_graph)]])
    /\ pc' = "done"
    /\ UNCHANGED <<request, script_vars>>
    /\ UNCHANGED <<decision, store_vector, store_graph, vector_results,
                   paths_used, fused_results, rrf_scores, base_scores,
                   reranked_results, target_topics, completion, route_result,
                   endpoint, template_used, graph_params, store_status>>

SpecSearch == InitSearch /\ [][GraphSearch]_vars

(***************************************************************************)
(* validate_params called directly on a template schema and a parameter    *)
(* map.                                                                    *)
(***************************************************************************)
\* The names of the declared parameters, in the order of the schema.
ParamNames == <<"x", "y", "z", "w">>

\* What a parameter map holds for a name: nothing (0), or one of these
\* values; None is an explicit null.
ParamValues ==
    <<None, Some(PyStr("a")), Some(PyStr("")), Some(PyStr(" ")),
      Some(PyVal("chars", <<" ", " ">>)), Some(PyVal("int", 2)),
      Some(PyVal("bool", TRUE)), Some(PyVal("float", "2.5")),
      Some(PyList(<<>>)), Some(PyList(<<PyStr("a"), PyStr("b")>>)),
      Some(PyList(<<PyStr("a"), PyVal("int", 2)>>))>>

\* The parameter map that holds ParamValues[choice[i]] for the i-th name,
\* and nothing for a choice of 0.
ParamsOf(choice) ==
    [n \in {ParamNames[i] : i \in {k \in DOMAIN choice : choice[k] # 0}} |->
        ParamValues[choice[CHOOSE i \in DOMAIN choice : ParamNames[i] = n]]]

InitValidate ==
    /\ pc = "call"
    /\ endpoint = "direct"
    /\ \E n \in 0..MaxParams :
          /\ \E f \in [1..n -> [type : {"string", "string_list", "int"},
                                required : BOOLEAN]] :
                template_schema =
                   [i \in 1..n |->
                       TemplateParam(ParamNames[i], f[i].type, f[i].required)]
          /\ \E choice \in [1..n -> 0..Len(ParamValues)] :
                graph_params = Some(ParamsOf(choice))
    /\ param_errors = <<>>
    /\ NoRequest /\ NoScript
    /\ decision = NoDecision
    /\ store_vector = <<>>
    /\ store_graph = <<>>
    /\ store_status = StoreUp
    /\ vector_results = <<>>
    /\ graph_results = <<>>
    /\ paths_used = <<>>
    /\ template_used = None
    /\ fused_results = <<>>
    /\ rrf_scores = None
    /\ base_scores = <<>>
    /\ reranked_results = <<>>
    /\ target_topics = <<>>
    /\ completion = NoCompletion
    /\ route_result = NoResult
    /\ calls = <<>>
    /\ response = None

\* validate_params(template, params) with template.params = template_schema.
CallValidate ==
    /\ pc = "call" /\ endpoint = "direct"
    /\ param_errors' = validate_params(template_schema, Val(graph_params))
    /\ pc' = "validated"
    /\ UNCHANGED <<request, script_vars>>
    /\ UNCHANGED <<decision, store_vector, store_graph, vector_results,
                   graph_results, paths_used, fused_results, rrf_scores,
                   base_scores, reranked_results, target_topics, completion,
                   route_result, endpoint, template_used, calls, graph_params,
                   store_status, response, template_schema>>

SpecValidate == InitValidate /\ [][CallValidate]_vars

(***************************************************************************)
(* The application: api/main.py create_app and the routers of              *)
(* api/routers.  A request is a method, a path and a JSON body; a body is  *)
(* a dict whose strs are lists of characters.                              *)
(***************************************************************************)
\* The routes each APIRouter declares: method, path with the router prefix,
\* the pydantic model of the body (None for a route without a body) and the
\* handler.
Route(method, path, model, handler) ==
    [method |-> method, path |-> path, model |-> model, handler |-> handler]
\* routers/search.py:32, 89-90, 167-168, 187-188, 263-264
search_router ==
    {Route("POST", "/api/v1/search/vector", Some("VectorSearchRequest"),
           "vector_search"),
     Route("GET", "/api/v1/search/node-types", None, "list_node_types"),
     Route("POST", "/api/v1/search/graph", Some("GraphSearchRequest"),
           "graph_search"),
     Route("GET", "/api/v1/search/templates", None, "list_templates")}
\* routers/query.py:30, 120-121
query_router ==
    {Route("POST", "/api/v1/query", Some("QueryRequest"), "unified_query")}
\* routers/answer.py:29, 32-33
answer_router ==
    {Route("POST", "/api/v1/answer", Some("AnswerRequest"), "generate_answer")}

\* main.py:40-48, 60-61, 69-70, 101-102: the documentation routes of the
\* FastAPI constructor, the two routers create_app includes, and the two
\* routes declared on the application.
AppRoutes ==
    {Route("GET", "/docs", None, "swagger_ui_html"),
     Route("GET", "/redoc", None, "redoc_html"),
     Route("GET", "/openapi.json", None, "openapi")}
    \cup search_router \cup query_router
    \cup {Route("GET", "/health", None, "health_check"),
          Route("GET", "/", None, "root")}

\* The constraints of the body models: the required str field with its
\* least and greatest length (None for no limit), and the greatest top_k
\* (None when the model has no top_k).
\* models/answer.py:21-48, models/query.py:25-44, models/search.py:18-32
\* and 162-174.
BodyModel(name) ==
    CASE name = "AnswerRequest" ->
            [field |-> "question", min_length |-> Some(3),
             max_length |-> Some(2000), top_k_le |-> Some(20)]
      [] name = "QueryRequest" ->
            [field |-> "question", min_length |-> Some(3),
             max_length |-> Some(2000), top_k_le |-> Some(50)]
      [] name = "VectorSearchRequest" ->
            [field |-> "query", min_length |-> Some(1),
             max_length |-> Some(2000), top_k_le |-> Some(50)]
      [] name = "GraphSearchRequest" ->
            [field |-> "template", min_length |-> None,
             max_length |-> None, top_k_le |-> None]

\* pydantic validation of a body against a model: the required field is
\* there and within its lengths, and top_k, when given and declared, is
\* between 1 and its limit.  Fields the model does not declare are ignored.
BodyValid(name, body) ==
    LET m == BodyModel(name)
    IN /\ m.field \in DOMAIN body
       /\ m.min_length # None => Len(body[m.field]) >= Val(m.min_length)
       /\ m.max_length # None => Len(body[m.field]) <= Val(m.max_length)
       /\ (m.top_k_le # None /\ "top_k" \in DOMAIN body) =>
              (body["top_k"] >= 1 /\ body["top_k"] <= Val(m.top_k_le))

\* What the application does with a request: 404 for a path no route has,
\* 405 for a path whose routes take other methods, 422 for a body the model
\* of the route rejects, else the handler of the route is called.
Serve(req) ==
    LET at_path == {r \in AppRoutes : r.path = req.path}
        matching == {r \in at_path : r.method = req.method}
        route_ == CHOOSE r \in matching : TRUE
    IN IF at_path = {} THEN [status |-> 404, handler |-> None]
       ELSE IF matching = {} THEN [status |-> 405, handler |-> None]
       ELSE IF route_.model # None /\ ~BodyValid(Val(route_.model), req.body)
       THEN [status |-> 422, handler |-> None]
       ELSE [status |-> 0, handler |-> Some(route_.handler)]

\* The requests of the model.
RequestPaths ==
    {r.path : r \in AppRoutes \cup answer_router} \cup {"/api/v1/unknown"}
Questions == {<<>>, <<"h", "i">>, <<"w", "h", "y">>, <<"w", "h", "a", "t">>}
TopKs == {0, 5, 21, 51}
RequestBodies ==
    {EmptyDict}
    \cup {[question |-> q] : q \in Questions}
    \cup {[question |-> q, top_k |-> k] : q \in Questions, k \in TopKs}
    \cup {[top_k |-> k] : k \in TopKs}
    \cup {[query |-> q] : q \in Questions}
    \cup {[template |-> <<"t">>]}

InitApp ==
    /\ Idle /\ NoScript
    /\ pc = "received"
    /\ request \in {Some([method |-> m, path |-> path, body |-> b]) :
                       m \in {"GET", "POST"}, path \in RequestPaths,
                       b \in RequestBodies}
    /\ vector_results = <<>>
    /\ graph_results = <<>>
    /\ fused_results = <<>>
    /\ rrf_scores = None
    /\ base_scores = <<>>
    /\ reranked_results = <<>>
    /\ target_topics = <<>>

\* The application answers the request itself or hands it to a handler;
\* endpoint then names the handler.
Dispatch ==
    /\ pc = "received"
    /\ LET served == Serve(Val(request))
       IN /\ response' = IF served.handler = None
                         THEN Some([status |-> served.status]) ELSE None
          /\ endpoint' = IF served.handler = None THEN "none"
                         ELSE Val(served.handler)
    /\ pc' = "dispatched"
    /\ UNCHANGED <<decision, store_vector, store_graph, vector_results,
                   graph_results, paths_used, fused_results, rrf_scores,
                   base_scores, reranked_results, target_topics, completion,
                   route_result, template_used, calls, graph_params,
                   store_status, template_schema, param_errors, request,
                   script_vars>>

SpecApp == InitApp /\ [][Dispatch]_vars

(***************************************************************************)
(* scripts/extraction/batch_processor.py: BatchProcessor and               *)
(* batch_process_with_retry.  The items are the numbers 1..n.  A           *)
(* processor is the record of its results, errors and processed_indices;   *)
(* the checkpoint directory maps the batch_idx in a file name to the       *)
(* checkpoint_data of the file.  Every run of the model uses the same      *)
(* checkpoint_dir and task_name.                                           *)
(***************************************************************************)
\* The result process_func returns for one item.
ResultOf(item) == [result_of |-> item]

\* process_func, the callable of the caller: it raises on a batch that
\* holds an item it cannot process and else returns one result per item.
process_func(batch, bad) ==
    IF \E i \in 1..Len(batch) : batch[i] \in bad
    THEN Raise("Exception")
    ELSE Return([i \in 1..Len(batch) |-> ResultOf(batch[i])])

\* batch_processor.py:40-42
NewProcessor == [results |-> <<>>, errors |-> <<>>, processed_indices |-> {}]

\* batch_processor.py:142, the orders in which glob may list the files.
GlobOrders(dir) ==
    {order \in [1..Cardinality(DOMAIN dir) -> DOMAIN dir] :
        \A i, j \in DOMAIN order : i # j => order[i] # order[j]}

\* batch_processor.py:140-158, the files taken in the order given.
RECURSIVE _load_checkpoint(_, _, _)
_load_checkpoint(self, dir, order) ==
    IF Len(order) = 0 THEN self
    ELSE LET checkpoint_data == dir[Head(order)]
         IN _load_checkpoint(
                [self EXCEPT
                    !.results = @ \o checkpoint_data.results,
                    !.processed_indices = @ \cup {checkpoint_data.batch_idx}],
                dir, Tail(order))

\* batch_processor.py:128-138
_save_checkpoint(dir, batch_idx, batch_results) ==
    Put(dir, batch_idx, [batch_idx |-> batch_idx,
                         batch_size |-> Len(batch_results),
                         results |-> batch_results])

\* batch_processor.py:102-107; the error text is left out.
ErrorInfo(batch_idx, batch) ==
    [batch_idx |-> batch_idx,
     batch_size |-> Len(batch),
     items |-> IF Len(batch) > 2 THEN SubSeq(batch, 1, 2) ELSE batch]

\* batch_processor.py:75-114, the loop from batch_idx on.  st holds the
\* processor, the directory and the calls of process_func made so far.
RECURSIVE ProcessBatches(_, _, _, _, _, _)
ProcessBatches(st, its, size, batch_idx, bad, pass) ==
    IF batch_idx >= Len(its) THEN st
    ELSE LET batch_end == Min(batch_idx + size, Len(its))
             batch == SubSeq(its, batch_idx + 1, batch_end)
             out == process_func(batch, bad)
             call == [pass |-> pass, batch_idx |-> batch_idx, batch |-> batch,
                      ok |-> out.ok]
             next ==
                IF batch_idx \in st.self.processed_indices THEN st
                ELSE IF out.ok
                THEN [self |-> [st.self EXCEPT
                                   !.results = @ \o out.val,
                                   !.processed_indices = @ \cup {batch_idx}],
                      dir |-> _save_checkpoint(st.dir, batch_idx, out.val),
                      log |-> Append(st.log, call)]
                ELSE [self |-> [st.self EXCEPT
                                   !.errors = Append(@, ErrorInfo(batch_idx, batch))],
                      dir |-> st.dir,
                      log |-> Append(st.log, call)]
         IN ProcessBatches(next, its, size, batch_idx + size, bad, pass)

\* batch_processor.py:44-126, BatchProcessor.process on a new processor.
\* The output file and the report are written and never read.
process(its, size, resume, dir, order, bad, pass) ==
    LET self == IF resume THEN _load_checkpoint(NewProcessor, dir, order)
                ELSE NewProcessor
    IN ProcessBatches([self |-> self, dir |-> dir, log |-> <<>>],
                      its, size, 0, bad, pass)

\* batch_processor.py:239-241
RECURSIVE FailedItems(_)
FailedItems(errors) ==
    IF Len(errors) = 0 THEN <<>>
    ELSE Head(errors).items \o FailedItems(Tail(errors))

\* batch_processor.py:202-250
batch_process_with_retry(its, size, max_retries, dir, order, bad) ==
    LET first == process(its, size, TRUE, dir, order, bad, 1)
        failed_items == FailedItems(first.self.errors)
        retry == process(failed_items, Max(1, size \div 2), FALSE, first.dir,
                         <<>>, bad, 2)
    IN IF Len(first.self.errors) > 0 /\ max_retries > 0 /\ Len(failed_items) > 0
       THEN [results |-> first.self.results \o retry.self.results,
             errors |-> retry.self.errors,
             dir |-> retry.dir,
             log |-> first.log \o retry.log]
       ELSE [results |-> first.self.results,
             errors |-> first.self.errors,
             dir |-> first.dir,
             log |-> first.log]

\* The batches of the items handed to the run that a call list shows as
\* processed successfully.
Succeeded(log) ==
    {[batch_idx |-> log[i].batch_idx, batch |-> log[i].batch] :
        i \in {j \in 1..Len(log) : log[j].pass = 1 /\ log[j].ok}}

InitScript ==
    /\ Idle /\ NoRequest
    /\ pc = "script"
    /\ vector_results = <<>>
    /\ graph_results = <<>>
    /\ fused_results = <<>>
    /\ rrf_scores = None
    /\ base_scores = <<>>
    /\ reranked_results = <<>>
    /\ target_topics = <<>>
    /\ \E n \in 0..MaxItems : items = [i \in 1..n |-> i]
    /\ batch_size \in 1..MaxBatchSize
    /\ failing \in SUBSET (1..Len(items))
    /\ checkpoint_dir = EmptyDict
    /\ process_calls = <<>>
    /\ returned = None
    /\ succeeded = {}

\* A script run: BatchProcessor(batch_size, ...).process(items, process_func,
\* resume), as the extraction scripts call it.
RunProcess ==
    /\ pc = "script"
    /\ \E resume \in BOOLEAN, order \in GlobOrders(checkpoint_dir) :
          LET run == process(items, batch_size, resume, checkpoint_dir, order,
                             failing, 1)
          IN /\ checkpoint_dir' = run.dir
             /\ process_calls' = run.log
             /\ returned' = Some([results |-> run.self.results,
                                  errors |-> run.self.errors,
                                  resume |-> resume, retry |-> FALSE])
             /\ succeeded' = succeeded \cup Succeeded(run.log)
    /\ UNCHANGED <<pc, decision, store_vector, store_graph, vector_results,
                   graph_results, paths_used, fused_results, rrf_scores,
                   base_scores, reranked_results, target_topics, completion,
                   route_result, endpoint, template_used, calls, graph_params,
                   store_status, response, template_schema, param_errors,
                   request, items, batch_size, failing>>

\* A script run: batch_process_with_retry(items, process_func, batch_size,
\* max_retries, ...).
RunWithRetry ==
    /\ pc = "script"
    /\ \E max_retries \in {0, 3}, order \in GlobOrders(checkpoint_dir) :
          LET run == batch_process_with_retry(items, batch_size, max_retries,
                                              checkpoint_dir, order, failing)
          IN /\ checkpoint_dir' = run.dir
             /\ process_calls' = run.log
             /\ returned' = Some([results |-> run.results,
                                  errors |-> run.errors,
                                  resume |-> TRUE, retry |-> max_retries > 0])
             /\ succeeded' = succeeded \cup Succeeded(run.log)
    /\ UNCHANGED <<pc, decision, store_vector, store_graph, vector_results,
                   graph_results, paths_used, fused_results, rrf_scores,
                   base_scores, reranked_results, target_topics, completion,
                   route_result, endpoint, template_used, calls, graph_params,
                   store_status, response, template_schema, param_errors,
                   request, items, batch_size, failing>>

NextScript == RunProcess \/ RunWithRetry

SpecScript == InitScript /\ [][NextScript]_vars

(***************************************************************************)
(* Properties of result fusion, stated for SpecFusion.                     *)
(***************************************************************************)
\* The records of the two argument lists in the order the fusion meets them.
Encountered == vector_results \o graph_results
RecordKeys == UNION {DOMAIN Encountered[i] : i \in 1..Len(Encountered)}

\* The first non-null value of a field among the records with identifier id,
\* in encounter order; None when every one of them leaves the field null.
FirstNonNull(id, key) ==
    LET holders == {i \in 1..Len(Encountered) :
                       /\ Get(Encountered[i], "rec_id") = id
                       /\ Get(Encountered[i], key) # None}
    IN IF holders = {} THEN None
       ELSE Encountered[CHOOSE i \in holders : \A j \in holders : i <= j][key]

\* The fused score of a record of the output, in units of 1/RrfScale.
FusedScoreOf(result) == Val(rrf_scores)[result["rec_id"]]

\* C1: after reciprocal_rank_fusion of two lists, an identifier that stands
\* at rank r1 of the first list and at rank r2 of the second has the fused
\* score 1/(60+r1) + 1/(60+r2), its merged record has source "both", and each
\* field of the merged record holds the first non-null value in encounter
\* order.
C1_SharedIdentifierScore ==
    pc = "fused" =>
        \A r1 \in 1..Len(vector_results), r2 \in 1..Len(graph_results) :
            LET id == Get(vector_results[r1], "rec_id")
            IN (id # None /\ Get(graph_results[r2], "rec_id") = id) =>
                  /\ Val(rrf_scores)[id] * (60 + r1) * (60 + r2) =
                         RrfScale * ((60 + r1) + (60 + r2))
                  /\ \E i \in 1..Len(fused_results) :
                        /\ Get(fused_results[i], "rec_id") = id
                        /\ Get(fused_results[i], "source") = Some("both")
                        /\ \A key \in RecordKeys \ {"source"} :
                              Get(fused_results[i], key) = FirstNonNull(id, key)

\* The identifiers of the records of both lists are pairwise different.
PairwiseDifferentIds ==
    \A i, j \in 1..Len(Encountered) :
        i < j => Get(Encountered[i], "rec_id") # Get(Encountered[j], "rec_id")
NoNullIds ==
    \A i \in 1..Len(Encountered) : Get(Encountered[i], "rec_id") # None

\* Every input record is in the output with the score 1/(60+rank) of its rank
\* in its own list, no record is dropped, and the output is ordered by
\* non-increasing fused score.
DisjointFusionOutcome ==
    /\ Len(fused_results) = Len(vector_results) + Len(graph_results)
    /\ \A l \in {vector_results, graph_results} : \A rank \in 1..Len(l) :
          /\ Get(l[rank], "rec_id") \in DOMAIN Val(rrf_scores)
          /\ Val(rrf_scores)[Get(l[rank], "rec_id")] * (60 + rank) = RrfScale
          /\ \E i \in 1..Len(fused_results) :
                Get(fused_results[i], "rec_id") = Get(l[rank], "rec_id")
    /\ \A i \in 1..(Len(fused_results) - 1) :
          FusedScoreOf(fused_results[i]) >= FusedScoreOf(fused_results[i + 1])

\* C2: reciprocal_rank_fusion of two lists of lengths m and n whose records
\* have pairwise different, non-null identifiers returns exactly m + n
\* records, each with the fused score 1/(60+rank) of its rank in its one
\* source list, in non-increasing order of fused score.
C2_DisjointListsKeepEveryRecord ==
    (pc = "fused" /\ PairwiseDifferentIds /\ NoNullIds) => DisjointFusionOutcome

\* C2 as stated, for every two lists with pairwise different identifiers,
\* a record without identifier included.
C2_DisjointListsAsStated ==
    (pc = "fused" /\ PairwiseDifferentIds) => DisjointFusionOutcome

\* Two non-empty lists with pairwise different non-null identifiers were fused.
C2_DisjointListsFused ==
    /\ pc = "fused" /\ PairwiseDifferentIds /\ NoNullIds
    /\ Len(vector_results) >= 1 /\ Len(graph_results) >= 2
    /\ Len(fused_results) = Len(vector_results) + Len(graph_results)

\* The place at which the fusion first meets the identifier of a record of
\* the output, scanning the first list and then the second.
FirstEncounter(result) ==
    CHOOSE i \in 1..Len(Encountered) :
        /\ Get(Encountered[i], "rec_id") = Get(result, "rec_id")
        /\ \A j \in 1..(i - 1) :
              Get(Encountered[j], "rec_id") # Get(result, "rec_id")

\* C22: the output of reciprocal_rank_fusion is ordered by fused score,
\* highest first, and of two records with the same fused score the one whose
\* identifier was met first comes first.
C22_StableDescendingOrder ==
    pc = "fused" =>
        \A i, j \in 1..Len(fused_results) :
            i < j =>
               \/ FusedScoreOf(fused_results[i]) > FusedScoreOf(fused_results[j])
               \/ /\ FusedScoreOf(fused_results[i]) = FusedScoreOf(fused_results[j])
                  /\ FirstEncounter(fused_results[i])
                        < FirstEncounter(fused_results[j])

\* Two identifiers were fused to the same score: each stands at rank 1 of
\* one list only.
C22_EqualScoresFused ==
    /\ pc = "fused"
    /\ \E i, j \in 1..Len(fused_results) :
          /\ i < j
          /\ FusedScoreOf(fused_results[i]) = FusedScoreOf(fused_results[j])

(***************************************************************************)
(* Properties of the request pipelines, stated for SpecQuery.              *)
(***************************************************************************)
\* C3: in every request, the list that leaves the fusion step, fused by RRF
\* or passed through from the one non-empty list, holds no two records with
\* the same identifier.
C3_FusedIdentifiersUnique ==
    pc = "fused" =>
        \A i, j \in 1..Len(fused_results) :
            (i < j /\ Get(fused_results[i], "rec_id") # None) =>
                Get(fused_results[i], "rec_id") # Get(fused_results[j], "rec_id")

\* The base score the record should start from: its similarity score when it
\* has one, else the fused score of its identifier when the list went through
\* RRF, else 0.5; as a reduced fraction.
ExpectedBaseScore(result) ==
    IF Get(result, "similarity_score") # None
    THEN Reduced(Val(result["similarity_score"]), ScoreUnit)
    ELSE IF rrf_scores # None /\ Get(result, "rec_id") \in DOMAIN Val(rrf_scores)
    THEN Reduced(Val(rrf_scores)[result["rec_id"]], RrfScale)
    ELSE <<1, 2>>

\* C5: the base score rerank_results starts from is the record's similarity
\* score whenever it has one (0 included), else the fused RRF score of the
\* record when the list went through RRF, and 0.5 only when it has neither.
C5_BaseScoreSource ==
    pc = "reranked" =>
        \A i \in 1..Len(fused_results) :
            Reduced(base_scores[i][1], base_scores[i][2]) =
                ExpectedBaseScore(fused_results[i])

\* The calls of a request that hand a query to execute_graph_query.
StructuralCalls ==
    {i \in 1..Len(calls) : calls[i].fn = "execute_graph_query"}

\* C12: execute_graph_query is called only after get_template found the
\* template and validate_params was called and returned no error for the
\* parameters passed.
C12_ValidatedBeforeExecution ==
    \A i \in StructuralCalls :
        /\ \E j \in 1..(i - 1) : calls[j].fn = "get_template"
        /\ \E j \in 1..(i - 1) : calls[j].fn = "validate_params"
        /\ param_errors = <<>>

\* The retrieval step of the request made a call of fn.
Retrieved(fn) ==
    \E i \in 1..Len(calls) : calls[i] = Call(fn, "retrieval")

\* C16: once the retrieval step has returned, the semantic call was made iff
\* the strategy is VECTOR or HYBRID, and the structural call was made iff the
\* strategy is GRAPH or HYBRID and a registry template was resolved; so a
\* GRAPH decision never makes the semantic call.
C16_CallsFixedByStrategy ==
    pc = "retrieved" =>
        /\ Retrieved("vector_search_with_embedding")
              <=> decision.query_type \in {"VECTOR", "HYBRID"}
        /\ Retrieved("execute_graph_query")
              <=> (/\ decision.query_type \in {"GRAPH", "HYBRID"}
                   /\ TruthyStr(template_used)
                   /\ Val(template_used) \in TEMPLATES)

\* C17: a request is not aborted by a failed retrieval call unless the store
\* is unreachable: when no call finds the store unreachable, the request does
\* not end in the 502 or 503 of the retrieval handlers (the failing path
\* counts as an empty list).
C17_AbortOnlyWhenUnreachable ==
    (pc = "done" /\ store_status.vector # "unreachable"
        /\ store_status.graph # "unreachable") =>
        Val(response).status \notin {502, 503}

\* C18: the reasoning block of a /query response agrees with the execution:
\* paths_used lists exactly the paths whose call was made, a path that ran
\* has its candidate count (0 for no record), and fusion_method is set
\* exactly when reciprocal_rank_fusion fused the two lists.
C18_MetadataAgrees ==
    (pc = "done" /\ endpoint = "query" /\ Val(response).status = 200) =>
        LET reasoning == Val(response).reasoning
            ran_vector == Retrieved("vector_search_with_embedding")
            ran_graph == Retrieved("execute_graph_query")
        IN /\ reasoning.paths_used =
                 (IF ran_vector THEN <<"vector">> ELSE <<>>)
                 \o (IF ran_graph THEN <<"graph">> ELSE <<>>)
           /\ ran_vector =>
                 reasoning.vector_candidates = Some(Len(vector_results))
           /\ ran_graph =>
                 reasoning.graph_candidates = Some(Len(graph_results))
           /\ reasoning.fusion_method # None
                 <=> \E i \in 1..Len(calls) :
                        calls[i].fn = "reciprocal_rank_fusion"

C28_ResponseAlwaysBuilt ==
    [][(endpoint = "query" /\ pc \in {"reranked", "boosted"} /\ pc' = "done") =>
          /\ Val(response').status = 200
          /\ \A i \in 1..Len(Val(response').results) :
                /\ Get(Val(response').results[i], "rec_id") # None
                /\ Get(Val(response').results[i], "rec_text") # None]_vars

(***************************************************************************)
(* Properties of re-ranking, stated for SpecRerank and SpecBoost.          *)
(***************************************************************************)
\* A field of a record matches a target topic: the field is not missing or
\* empty, and one of the two lower-cased strings holds the other.
FieldMatches(result, key, t) ==
    LET field == LowerField(result, key)
    IN field # <<>> /\ (IsSubstr(Lower(t), field) \/ IsSubstr(field, Lower(t)))
TopicOrSubtopicMatches(result) ==
    \E i \in 1..Len(target_topics) :
        \/ FieldMatches(result, "topic", target_topics[i])
        \/ FieldMatches(result, "subtopic", target_topics[i])

\* The record the topic boost should return for an input record.
ExpectedBoosted(result) ==
    IF TopicOrSubtopicMatches(result)
    THEN Put(result, "score",
             Some(CapRound(CurrentScore(result), ScoreUnit, BoostFactor)))
    ELSE result

Occurs(s, x) == Cardinality({i \in 1..Len(s) : s[i] = x})

\* C4: apply_topic_relevance_boost returns the input records, the score
\* multiplied by 1.10 and capped at 1.0 for exactly those whose topic or
\* subtopic matches a target topic, and every other record, one with a
\* missing or empty topic or subtopic included, unchanged.
C4_BoostExactlyMatching ==
    (pc = "boosted" /\ Len(target_topics) > 0) =>
        LET expected == SeqMap(ExpectedBoosted, fused_results)
        IN /\ Len(reranked_results) = Len(expected)
           /\ \A i \in 1..Len(expected) :
                 Occurs(reranked_results, expected[i]) = Occurs(expected, expected[i])

\* Positions p and q of the output hold a Strong record and a record equal to
\* it in every field but the strength, which is Weak.
StrongWeakPair(p, q) ==
    LET strong == Del(reranked_results[p], "score")
        weak == Del(reranked_results[q], "score")
    IN /\ Get(strong, "strength") = Some("Strong")
       /\ weak = Put(strong, "strength", Some("Weak"))
FinalScore(p) == Val(reranked_results[p]["score"])

\* C6: rerank_results, for two records of one list equal in every field but
\* the strength, Strong and Weak, and with a base score that is not negative:
\* the final score of the Strong record is never lower than that of the Weak
\* one, and whenever the Weak record's final score is at least 0.0006 and
\* below 1.0 the Strong record's is strictly higher and the Strong record
\* stands before the Weak one in the output.
C6_StrongNotBelowWeak ==
    pc = "reranked" =>
        \A p, q \in 1..Len(reranked_results) :
            (/\ StrongWeakPair(p, q)
             /\ BaseScore(Del(reranked_results[p], "score"))[1] >= 0) =>
                /\ FinalScore(p) >= FinalScore(q)
                /\ (FinalScore(q) >= 6 /\ FinalScore(q) < ScoreUnit) =>
                      (FinalScore(p) > FinalScore(q) /\ p < q)

\* C6 as stated: for every base score the Strong record has the strictly
\* higher final score and stands before the Weak one.
C6_StrongOutranksWeakAlways ==
    pc = "reranked" =>
        \A p, q \in 1..Len(reranked_results) :
            StrongWeakPair(p, q) => (FinalScore(p) > FinalScore(q) /\ p < q)

\* A list with the Weak record ahead of its Strong twin was re-ranked, and
\* the Strong one came out first with the higher score.
C6_StrongMovedAhead ==
    /\ pc = "reranked"
    /\ Len(fused_results) >= 2
    /\ Get(fused_results[1], "strength") = Some("Weak")
    /\ fused_results[2] = Put(fused_results[1], "strength", Some("Strong"))
    /\ StrongWeakPair(1, 2)
    /\ BaseScore(fused_results[1])[1] >= 0
    /\ FinalScore(2) >= 6 /\ FinalScore(2) < ScoreUnit
    /\ FinalScore(1) > FinalScore(2)

\* C7: every record rerank_results returns has a final score s with
\* 0 <= s <= 1, whatever its base score.
C7_FinalScoreInUnitInterval ==
    pc = "reranked" =>
        \A p \in 1..Len(reranked_results) :
            0 <= FinalScore(p) /\ FinalScore(p) <= ScoreUnit

\* The multiplier of the claim for a field value, in twentieths: the table
\* value for an exact match, 1.0 for every other value and for none.
Twentieths(field, value) ==
    CASE field = "strength" /\ value = Some("Strong") -> 24
      [] field = "strength" /\ value = Some("Weak") -> 20
      [] field = "strength" /\ value = Some("Neither for nor against") -> 18
      [] field = "evidence_quality" /\ value = Some("High") -> 23
      [] field = "evidence_quality" /\ value = Some("Moderate") -> 21
      [] field = "evidence_quality" /\ value = Some("Low") -> 19
      [] field = "evidence_quality" /\ value = Some("Very Low") -> 17
      [] field = "direction" /\ value = Some("For") -> 21
      [] field = "direction" /\ value = Some("Against") -> 20
      [] field = "direction" /\ value = Some("Neither") -> 19
      [] OTHER -> 20

\* round(min(1.0, base x strength x quality x direction), 4) in units of
\* 1/ScoreUnit for the i-th input record, base being base_scores[i].
ClaimedScore(i) ==
    LET product == base_scores[i][1]
                   * Twentieths("strength", Get(fused_results[i], "strength"))
                   * Twentieths("evidence_quality",
                                Get(fused_results[i], "evidence_quality"))
                   * Twentieths("direction", Get(fused_results[i], "direction"))
        unit == base_scores[i][2]
    IN IF product >= unit * 8000 THEN ScoreUnit
       ELSE RoundHalfEven(product * 5, unit * 4)

\* C24: rerank_results returns the input records, each with the score
\* round(min(1.0, base x strength x quality x direction), 4) of the table
\* multipliers (1.0 for a value outside the table or missing), in
\* non-increasing order of that score.
C24_ScoreFormulaAndOrder ==
    (pc = "reranked" /\ endpoint = "direct") =>
        /\ Len(reranked_results) = Len(fused_results)
        /\ \A i \in 1..Len(fused_results) :
              Occurs(reranked_results,
                     Put(fused_results[i], "score", Some(ClaimedScore(i))))
                 = Occurs(fused_results, fused_results[i])
        /\ \A j \in 1..(Len(reranked_results) - 1) :
              FinalScore(j) >= FinalScore(j + 1)

\* Records with a quality outside the table, one of them Strong, were
\* re-ranked.
C24_UnknownQualityReranked ==
    /\ pc = "reranked" /\ endpoint = "direct"
    /\ Len(reranked_results) >= 2
    /\ \E j \in 1..Len(reranked_results) :
          /\ Get(reranked_results[j], "evidence_quality") = Some("Excellent")
          /\ Get(reranked_results[j], "strength") = Some("Strong")

IsFallback(d) ==
    /\ d.query_type = "VECTOR"
    /\ d.intent = "general_question"
    /\ d.confidence = <<1, 2>>
    /\ d.entities = EmptyEntities
    /\ d.template_hint = None

\* C8: QueryRouter.route returns a RoutingDecision and never raises, for
\* every outcome of the completion-service call.
C8_RouteNeverRaises ==
    pc = "route_returned" => route_result.ok

\* The completion holds, bare or in a fenced block, the JSON object o.
CompletionHoldsObject(o) ==
    \E w \in {"bare", "fenced json", "fenced"} :
        completion = TextCompletion(Wrap(w, JObj(o)))
\* The objects with an unknown query_type, an unknown intent, or both, and
\* every other field present and well formed.
UnknownEnumObjects ==
    {MkObj([query_type |-> Present(JStr(a)), intent |-> Present(JStr(b)),
            confidence |-> Present(JNum(19, 20)),
            entities |-> Present(JObj(EmptyDict)),
            template_hint |-> Present(JStr("recommendations_by_topic")),
            reasoning |-> Present(JStr("because"))]) :
        a \in {"HYBRID", "KEYWORD"}, b \in {"evidence_lookup", "diagnosis"}}
    \ {MkObj([query_type |-> Present(JStr("HYBRID")),
              intent |-> Present(JStr("evidence_lookup")),
              confidence |-> Present(JNum(19, 20)),
              entities |-> Present(JObj(EmptyDict)),
              template_hint |-> Present(JStr("recommendations_by_topic")),
              reasoning |-> Present(JStr("because"))])}

\* C9: when the completion is a JSON object, its other fields well formed,
\* whose query_type or intent is no member of its enum, route does not raise
\* and returns the fixed fallback decision.
C9_UnknownEnumGivesFallback ==
    pc = "route_returned" =>
        \A o \in UnknownEnumObjects :
            CompletionHoldsObject(o) =>
                (route_result.ok /\ IsFallback(route_result.val))

\* The lines of a text with its fence lines left out are the lines of one
\* JSON value.
HoldsJson(text) ==
    LET body == SelectSeq(text, NotFence)
    IN /\ Len(body) = Cardinality(JsonParts)
       /\ body[1].kind = "json"
       /\ body = JsonLines(body[1].doc)
\* The call raised a network or HTTP error, or its answer is no JSON.
CallFailedOrNotJson ==
    \/ completion.kind \in {"network_error", "http_status", "body_not_json"}
    \/ /\ CompletionText(completion).ok
       /\ ~HoldsJson(CompletionText(completion).val)

\* C10: when the completion-service call raises a network or HTTP error or
\* returns text that is not JSON, route returns a decision, and the request
\* goes on with it, with strategy VECTOR, intent general_question,
\* confidence 0.5, all five entity lists empty and no template hint.
C10_FailedCallGivesFallback ==
    (pc \in {"route_returned", "routed"} /\ CallFailedOrNotJson) =>
        /\ route_result.ok
        /\ IsFallback(route_result.val)
        /\ pc = "routed" => IsFallback(decision)

\* route returned for a completion whose text is prose, no JSON.
C10_ProseWasRouted ==
    /\ pc = "routed"
    /\ completion = TextCompletion(<<Prose>>)
    /\ CallFailedOrNotJson
    /\ route_result.ok
    /\ decision = route_result.val

\* The completion is a text whose first line is a fence and whose second
\* line opens a JSON value.
FencedText ==
    /\ completion.kind = "ok"
    /\ "content" \in DOMAIN completion.body
    /\ Len(completion.body.content) > 0
    /\ "text" \in DOMAIN completion.body.content[1]
    /\ Len(completion.body.content[1].text) >= 2
    /\ completion.body.content[1].text[1].kind = "fence"
    /\ completion.body.content[1].text[2].kind = "json"
WrappedDoc == completion.body.content[1].text[2].doc

\* C26: a response made of one JSON object in a fenced code block, the
\* opening fence with or without a language tag and the closing fence on a
\* line of its own or directly after the object, gives the result route gives
\* for the bare object.
C26_FencedParsesAsBare ==
    (pc = "route_returned" /\ FencedText /\ WrappedDoc.t = "obj"
     /\ \E w \in {"fenced json", "fenced", "fence on last line"} :
           completion = TextCompletion(Wrap(w, WrappedDoc)))
    => route_result = route(TextCompletion(Wrap("bare", WrappedDoc)))

(***************************************************************************)
(* Properties of template selection and parameter building, stated for     *)
(* SpecParams.                                                             *)
(***************************************************************************)
\* C11: for every template the resolver returns and the registry holds, and
\* for every decision, the parameter map the endpoint builds passes
\* validate_params for the template (so it holds every required parameter).
C11_BuiltParamsAreValid ==
    pc = "built" => validate_params(template_schema, Val(graph_params)) = <<>>

\* The decision has no hint that names a registry template.
NoRegistryHint ==
    ~(TruthyStr(decision.template_hint)
      /\ Val(decision.template_hint) \in TEMPLATES)

\* C13: without a registry hint the resolver goes by the entities in the
\* order recommendation identifiers (an identifier-keyed template), then
\* conditions (recommendations_by_condition), then medications
\* (recommendations_by_intervention), then topics (recommendations_by_topic).
C13_EntityPriority ==
    (pc = "selected" /\ NoRegistryHint) =>
        LET e == decision.entities
        IN IF NonEmpty(e.rec_ids)
           THEN template_used \in {Some("recommendation_only"),
                                   Some("recommendation_with_evidence"),
                                   Some("evidence_chain_full"),
                                   Some("studies_for_recommendation"),
                                   Some("interventions_for_recommendation"),
                                   Some("conditions_for_recommendation")}
           ELSE IF NonEmpty(e.conditions)
           THEN template_used = Some("recommendations_by_condition")
           ELSE IF NonEmpty(e.medications)
           THEN template_used = Some("recommendations_by_intervention")
           ELSE NonEmpty(e.topics)
                => template_used = Some("recommendations_by_topic")

\* C14: a hint outside the registry is ignored: the resolver returns what it
\* returns for the same decision without the hint, so the unknown hint alone
\* never leaves the structural path without a registry template.
C14_UnknownHintIgnored ==
    (pc = "selected" /\ TruthyStr(decision.template_hint)
        /\ Val(decision.template_hint) \notin TEMPLATES) =>
        template_used =
            SelectedTemplate(endpoint, [decision EXCEPT !.template_hint = None])

\* C15: with no hint and no entity the resolver returns evidence_chain_full
\* for intent evidence_lookup, otherwise an overview template for strategy
\* GRAPH, otherwise no template.
C15_EmptyEntitiesFallback ==
    (pc = "selected" /\ ~TruthyStr(decision.template_hint)
        /\ decision.entities = EmptyEntities) =>
        IF decision.intent = "evidence_lookup"
        THEN template_used = Some("evidence_chain_full")
        ELSE IF decision.query_type = "GRAPH"
        THEN template_used \in {Some("conditions_overview"),
                                Some("interventions_overview"),
                                Some("care_phases_overview")}
        ELSE template_used = None


(***************************************************************************)
(* Properties of the order of the steps of a request, stated for           *)
(* SpecRequest.                                                            *)
(***************************************************************************)
\* The place of a step in the order routing, retrieval, fusion, re-ranking.
StepRank(step) ==
    CASE step = "routing" -> 1
      [] step = "retrieval" -> 2
      [] step = "fusion" -> 3
      [] step = "rerank" -> 4
      [] OTHER -> 5

\* C19: the calls of a request are made in the order of the steps: every
\* retrieval call comes after the classifier call, whose decision (or the
\* fallback) the request then holds; the fusion comes after every retrieval
\* call; re-ranking comes after the fusion; whichever retrieval call is made
\* first.
C19_StepsInOrder ==
    /\ \A i, j \in 1..Len(calls) :
          i < j => StepRank(calls[i].step) <= StepRank(calls[j].step)
    /\ (\E i \in 1..Len(calls) : calls[i].step = "retrieval")
          => (route_result # NoResult /\ decision # NoDecision
              /\ calls[1] = Call("route", "routing"))
    /\ (\E i \in 1..Len(calls) : calls[i].step \in {"fusion", "rerank"})
          => pc \notin {"start", "route_returned", "routed"}

\* A request made every step: routing, both retrieval calls, fusion and
\* re-ranking.
C19_AllStepsMade ==
    /\ \E i \in 1..Len(calls) : calls[i] = Call("route", "routing")
    /\ Retrieved("vector_search_with_embedding")
    /\ Retrieved("execute_graph_query")
    /\ \E i \in 1..Len(calls) : calls[i].fn = "reciprocal_rank_fusion"
    /\ \E i \in 1..Len(calls) : calls[i].fn = "rerank_results"

(***************************************************************************)
(* Properties of validate_params, stated for SpecValidate.                 *)
(***************************************************************************)
\* The constraint a declared parameter violates in a parameter map, "none"
\* when it violates none.  A value is of type int when isinstance(value, int)
\* holds, which a bool satisfies.
ViolatedConstraint(ps, params) ==
    LET given == ps.name \in DOMAIN params /\ params[ps.name] # None
        x == Val(params[ps.name])
    IN IF ~given THEN (IF ps.required THEN "missing" ELSE "none")
       ELSE CASE ps.type = "string" ->
                    IF x.t \notin {"str", "chars"} THEN "not a string"
                    ELSE IF IsBlank(x) THEN "blank string" ELSE "none"
              [] ps.type = "string_list" ->
                    IF x.t # "list" THEN "not a list"
                    ELSE IF x.v = <<>> THEN "empty list"
                    ELSE IF \E i \in 1..Len(x.v) : x.v[i].t \notin {"str", "chars"}
                    THEN "non-string element" ELSE "none"
              [] ps.type = "int" ->
                    IF x.t \notin {"int", "bool"} THEN "not an integer"
                    ELSE "none"

\* The message validate_params gives for a violated constraint.
MessageOf(constraint, name) ==
    CASE constraint = "missing" -> <<"Missing required parameter", name>>
      [] constraint = "not a string" -> <<"must be a string", name>>
      [] constraint \in {"blank string", "empty list"} ->
            <<"cannot be empty", name>>
      [] constraint = "not a list" -> <<"must be a list", name>>
      [] constraint = "non-string element" ->
            <<"must be a list of strings", name>>
      [] constraint = "not an integer" -> <<"must be an integer", name>>

\* C20: validate_params returns the empty list iff the map violates no
\* constraint of the schema; otherwise it returns, in the order of the
\* schema, one message for each violated constraint, the messages pairwise
\* different.  For one required string-list parameter x it rejects {},
\* {x: []} and {x: ['a', 2]} and accepts {x: ['a', 'b']}.
C20_OneMessagePerViolation ==
    pc = "validated" =>
        LET params == Val(graph_params)
            violating == {i \in 1..Len(template_schema) :
                            ViolatedConstraint(template_schema[i], params) # "none"}
            x_list == <<TemplateParam("x", "string_list", TRUE)>>
        IN /\ param_errors = <<>> <=> violating = {}
           /\ Len(param_errors) = Cardinality(violating)
           /\ \A i \in violating :
                 \E k \in 1..Len(param_errors) :
                    /\ param_errors[k] =
                          MessageOf(ViolatedConstraint(template_schema[i], params),
                                    template_schema[i].name)
                    /\ k = Cardinality({j \in violating : j <= i})
           /\ \A k, l \in 1..Len(param_errors) :
                 k # l => param_errors[k] # param_errors[l]
           /\ template_schema = x_list =>
                 LET given == "x" \in DOMAIN params /\ params["x"] # None
                     x == Val(params["x"])
                     is_list == given /\ x.t = "list"
                 IN /\ ~given => param_errors # <<>>
                    /\ (is_list /\ Len(x.v) = 0) => param_errors # <<>>
                    /\ (is_list /\ \E i \in 1..Len(x.v) : x.v[i].t = "int")
                          => param_errors # <<>>
                    /\ (is_list /\ Len(x.v) = 2
                        /\ \A i \in 1..Len(x.v) : x.v[i].t = "str")
                          => param_errors = <<>>

\* A map with a blank string for one parameter and a list with a non-string
\* element for another was validated: two messages.
C20_TwoConstraintsViolated ==
    /\ pc = "validated"
    /\ Len(template_schema) = 2
    /\ ViolatedConstraint(template_schema[1], Val(graph_params)) = "blank string"
    /\ ViolatedConstraint(template_schema[2], Val(graph_params))
          = "non-string element"
    /\ Len(param_errors) = 2

(***************************************************************************)
(* Properties of POST /search/graph, stated for SpecSearch.                *)
(***************************************************************************)
\* The declared parameters of the requested template that violate a
\* constraint in the parameter map of the request.
OffendingParams ==
    {i \in 1..Len(TemplateParams(Val(template_used))) :
        ViolatedConstraint(TemplateParams(Val(template_used))[i],
                           Val(graph_params)) # "none"}

\* The request made a call of execute_graph_query.
StoreQueried == \E i \in 1..Len(calls) : calls[i].fn = "execute_graph_query"

\* C21: a request for a template outside the registry ends in 400, naming
\* the template; a request for a registry template whose parameters violate
\* a constraint ends in 422 with a message naming each offending parameter;
\* in both cases execute_graph_query is not called.  A valid request to
\* which the reachable store returns no row ends in 200 with results [] and
\* results_count 0.
C21_SearchErrors ==
    pc = "done" =>
        LET name == Val(template_used)
            r == Val(response)
        IN /\ name \notin TEMPLATES =>
                 (r.status = 400 /\ r.detail = name /\ ~StoreQueried)
           /\ (name \in TEMPLATES /\ OffendingParams # {}) =>
                 /\ r.status = 422
                 /\ ~StoreQueried
                 /\ \A i \in OffendingParams :
                       \E k \in 1..Len(r.detail) :
                          r.detail[k][2] = TemplateParams(name)[i].name
           /\ (name \in TEMPLATES /\ OffendingParams = {}
               /\ store_status.graph = "ok" /\ store_graph = <<>>) =>
                 /\ r.status = 200
                 /\ r.results = <<>>
                 /\ r.reasoning.results_count = 0

\* A request for a registry template with a blank string parameter was
\* answered with 422.
C21_BlankParameterRejected ==
    /\ pc = "done" /\ endpoint = "search_graph"
    /\ Val(template_used) \in TEMPLATES
    /\ \E i \in OffendingParams :
          ViolatedConstraint(TemplateParams(Val(template_used))[i],
                             Val(graph_params)) = "blank string"
    /\ Val(response).status = 422

(***************************************************************************)
(* Properties of the application, stated for SpecApp.                      *)
(***************************************************************************)
\* C27: a POST to /api/v1/answer whose body has no question, or a question
\* of fewer than 3 characters, is answered with status 422.
C27_AnswerRejectsShortQuestion ==
    (pc = "dispatched"
     /\ Val(request).method = "POST" /\ Val(request).path = "/api/v1/answer"
     /\ ("question" \notin DOMAIN Val(request).body
         \/ Len(Val(request).body["question"]) < 3))
    => (response # None /\ Val(response).status = 422)

(***************************************************************************)
(* Properties of the batch processor, stated for SpecScript.               *)
(***************************************************************************)
InBatch(item, batch) == \E k \in 1..Len(batch) : batch[k] = item
CallsOfPass(n) == {i \in 1..Len(process_calls) : process_calls[i].pass = n}
\* The pass whose errors the run returned.
ErrorsPass == IF CallsOfPass(2) # {} THEN 2 ELSE 1

\* C29: after batch_process_with_retry with retries allowed, every item of
\* every batch that failed in the first pass was handed to process_func in
\* the retry pass, and every input item is in a batch that succeeded (in
\* this run or, for a batch skipped on resume, an earlier one) or in a batch
\* the returned errors list.
C29_NoItemLeftOut ==
    (returned # None /\ Val(returned).retry) =>
        /\ \A i \in CallsOfPass(1) :
              ~process_calls[i].ok =>
                 \A k \in 1..Len(process_calls[i].batch) :
                    \E j \in CallsOfPass(2) :
                       InBatch(process_calls[i].batch[k], process_calls[j].batch)
        /\ \A n \in 1..Len(items) :
              \/ \E b \in succeeded : InBatch(items[n], b.batch)
              \/ \E j \in CallsOfPass(2) :
                    process_calls[j].ok /\ InBatch(items[n], process_calls[j].batch)
              \/ \E j \in CallsOfPass(ErrorsPass) :
                    /\ ~process_calls[j].ok
                    /\ InBatch(items[n], process_calls[j].batch)
                    /\ \E e \in 1..Len(Val(returned).errors) :
                          Val(returned).errors[e].batch_idx
                             = process_calls[j].batch_idx

\* C30: in a run that resumes, no batch processed successfully before is
\* handed to process_func again, and the returned results hold the result of
\* every item of every successfully processed batch exactly once.
C30_ResumeKeepsEachBatchOnce ==
    [][(returned' # None /\ Val(returned').resume
        /\ process_calls' # process_calls) =>
          /\ \A i \in 1..Len(process_calls') :
                [batch_idx |-> process_calls'[i].batch_idx,
                 batch |-> process_calls'[i].batch] \notin succeeded
          /\ \A b \in succeeded' :
                \A k \in 1..Len(b.batch) :
                   Occurs(Val(returned').results, ResultOf(b.batch[k])) = 1]_vars

====
